---- MODULE Spec2Model ----
(***************************************************************************)
(* Model of the retrieval core of the Yanck chatbot platform:              *)
(*   - VectorStoreManager (models/vector_store_manager.py): one FAISS      *)
(*     index file and one JSON sidecar per chatbot, with create / load /   *)
(*     add / search / delete;                                              *)
(*   - DocumentService (services/document_service.py): upload, the         *)
(*     ingestion run generate_embeddings, and delete_document.             *)
(* Every call is a sequence of steps, one step per file-system or          *)
(* database access, executed by a request thread (Flask serves each        *)
(* request on its own thread and the code takes no lock).                  *)
(***************************************************************************)
EXTENDS Integers, Sequences, FiniteSets, TLC

\* ------------------------------------------------------------------ bounds
Tenants  == {"t1", "t2"}
Procs    == {"p1", "p2"}
DocIds   == {"d1", "d2"}
Dim       == 2      \* vector width of the embedding provider
MaxBatch  == 1      \* largest batch a direct add_documents call passes
MaxChunks == 2      \* largest number of chunks one document splits into
MaxStoreVecs == 2   \* cap on the vectors of one index, concurrent requests
MaxK      == 1      \* largest k passed to similarity_search
MaxFaults == 2      \* disk and provider faults injected per behaviour

\* the largest index sequential requests can build: every document's chunks
\* once, and once more for each fault that leaves chunks behind
MaxVecs == (Cardinality(DocIds) + MaxFaults) * MaxChunks

\* ------------------------------------------------------------------ state
VARIABLES
    idx,       \* [Tenants -> index file]   index.faiss of each store
    meta,      \* [Tenants -> sidecar file] metadata.json of each store
    dir,       \* [Tenants -> BOOLEAN]      the store directory exists
    cbStatus,  \* [Tenants -> status]       chatbots.status
    docs,      \* [DocIds -> row]           documents table
    upfile,    \* [DocIds -> file]          uploaded files on disk
    pc,        \* [Procs -> label]          position of each request thread
    stack,     \* [Procs -> Seq(site)]      call sites to return to
    arg,       \* [Procs -> record]         arguments of the store call
    lidx,      \* [Procs -> index]          local `index`
    lmeta,     \* [Procs -> sidecar]        local `store_metadata`
    exc,       \* [Procs -> kind]           outcome of the last finished call
    ret,       \* [Procs -> Seq(result)]    value returned by the last call
    gen,       \* [Procs -> record]         locals of generate_embeddings
    del,       \* [Procs -> record]         locals of delete_document
    qry,       \* [Procs -> record]         locals of query, retrieve_context
               \*                           and delete_chatbot
    last,      \* history: the last finished request of the document service
    ov,        \* [Procs -> kind] history: "add" / "search" when the thread's
               \* call of that kind overlapped an add_documents of another
               \* thread on the same chatbot, else "none"
    added,     \* [Tenants -> Nat] history: chunks passed to the add_documents
               \* calls that returned since the store was created
    sent,      \* [Tenants -> Seq(chunk)] history: the chunks passed to those
               \* calls, in the order the calls returned
    budget,    \* disk and provider faults that may still be injected
    dbBudget,  \* database faults that may still be injected
    cap,       \* the largest index the model lets add_documents build
    dep        \* the draft folder and the chatbot deployed from it, by count:
               \* files of the draft, document rows of the chatbot

fsVars   == <<idx, meta, dir>>
dbVars   == <<cbStatus, docs, upfile>>
callVars == <<arg, lidx, lmeta, ret>>
svcVars  == <<gen, del, qry>>
vars     == <<idx, meta, dir, cbStatus, docs, upfile, pc, stack, arg, lidx,
              lmeta, exc, ret, gen, del, qry, last, ov, added, sent, budget,
              dbBudget, cap, dep>>

\* ------------------------------------------------------------ exceptions
OK    == "ok"
VErr  == "ValueError"
FNF   == "FileNotFoundError"
EExc  == "Exception"

\* ----------------------------------------------------------- file values
NoIndex == [exists |-> FALSE, d |-> 0, vecs |-> <<>>]
NoMeta  == [exists |-> FALSE, chatbot_id |-> "", dimension |-> 0,
            total_documents |-> 0, documents |-> <<>>]

\* faiss.IndexFlatL2(dimension): an empty flat index
IndexFlatL2(dimension) == [exists |-> TRUE, d |-> dimension, vecs |-> <<>>]

\* the empty sidecar of create_store
EmptyMetadata(chatbot_id, dimension) ==
    [exists |-> TRUE, chatbot_id |-> chatbot_id, dimension |-> dimension,
     total_documents |-> 0, documents |-> <<>>]

ntotal(index) == Len(index.vecs)

\* os.path.exists(index_path) / os.path.exists(metadata_path): a file of a
\* removed directory does not exist
IndexExists(t) == dir[t] /\ idx[t].exists
MetaExists(t)  == dir[t] /\ meta[t].exists

\* ------------------------------------------------------ embedding provider
\* EmbeddingManager.encode: a fixed text -> vector map of width Dim; the
\* vector depends on the whole text, so the first chunks of two documents
\* need not share a vector
Embed(text) ==
    LET h == text[2] + (IF text[1] = "d2" THEN 1 ELSE 0)
    IN [j \in 1..Dim |-> IF j = (h % Dim) + 1 THEN 1 ELSE 0]

EncodeAll(texts) == [i \in 1..Len(texts) |-> Embed(texts[i])]

\* ------------------------------------------------------------ add_documents
\* the validation of add_documents before its try block
AddInvalid(a) ==
    \/ Len(a.texts) = 0
    \/ Len(a.embs) # Len(a.texts)
    \/ Len(a.metas) # Len(a.texts)

\* embeddings.shape[1]
Width(embs) == IF Len(embs) = 0 THEN 0 ELSE Len(embs[1])

\* one sidecar record: {"id": total + i, "text": text, **meta}
DocEntry(total, i, text, m) == m @@ [id |-> total + i, text |-> text]

\* a faulty variant of AppendDocuments: the counter is not updated
AppendDocumentsStaleCount(sm, texts, metas) ==
    [sm EXCEPT
       !.documents = @ \o [i \in 1..Len(texts) |->
                             DocEntry(sm.total_documents, i - 1, texts[i], metas[i])]]

\* the sidecar after the append loop and the counter update
AppendDocuments(sm, texts, metas) ==
    [sm EXCEPT
       !.documents = @ \o [i \in 1..Len(texts) |->
                             DocEntry(sm.total_documents, i - 1, texts[i], metas[i])],
       !.total_documents = @ + Len(texts)]

\* a faulty variant of IndexAdd: the new vectors are put in front
IndexAddInFront(index, embs) == [index EXCEPT !.vecs = embs \o @]

\* index.add(embeddings)
IndexAdd(index, embs) == [index EXCEPT !.vecs = @ \o embs]

\* -------------------------------------------------------- similarity_search
SqDist(q, v) ==
    LET RECURSIVE Sum(_)
        Sum(j) == IF j = 0 THEN 0
                  ELSE (q[j] - v[j]) * (q[j] - v[j]) + Sum(j - 1)
    IN Sum(Len(v))

\* a faulty variant of Nearest: the farthest vectors are returned
RECURSIVE NearestFar(_, _, _, _)
NearestFar(index, q, k, taken) ==
    IF k = 0 THEN <<>>
    ELSE LET cand == (1..ntotal(index)) \ taken
             best == CHOOSE i \in cand :
                        \A j \in cand :
                           \/ SqDist(q, index.vecs[i]) > SqDist(q, index.vecs[j])
                           \/ /\ SqDist(q, index.vecs[i]) = SqDist(q, index.vecs[j])
                              /\ i <= j
         IN <<best - 1>> \o NearestFar(index, q, k - 1, taken \cup {best})

\* index.search(query, k): positions (zero-based) of the k nearest vectors,
\* nearest first, the lower position first among equal distances
RECURSIVE Nearest(_, _, _, _)
Nearest(index, q, k, taken) ==
    IF k = 0 THEN <<>>
    ELSE LET cand == (1..ntotal(index)) \ taken
             best == CHOOSE i \in cand :
                        \A j \in cand :
                           \/ SqDist(q, index.vecs[i]) < SqDist(q, index.vecs[j])
                           \/ /\ SqDist(q, index.vecs[i]) = SqDist(q, index.vecs[j])
                              /\ i <= j
         IN <<best - 1>> \o Nearest(index, q, k - 1, taken \cup {best})

\* a faulty variant of Results: the rank counts from 0
RECURSIVE ResultsRankFromZero(_, _, _, _, _)
ResultsRankFromZero(index, sm, q, hits, i) ==
    IF i > Len(hits) THEN <<>>
    ELSE LET pos == hits[i]
             rest == ResultsRankFromZero(index, sm, q, hits, i + 1)
         IN IF pos < Len(sm.documents)
            THEN <<[score |-> SqDist(q, index.vecs[pos + 1]), rank |-> i - 1]
                     @@ sm.documents[pos + 1]>> \o rest
            ELSE rest

\* the result loop: a hit beyond the sidecar's records is skipped, the rank
\* is the position of the hit among the hits
RECURSIVE Results(_, _, _, _, _)
Results(index, sm, q, hits, i) ==
    IF i > Len(hits) THEN <<>>
    ELSE LET pos == hits[i]
             rest == Results(index, sm, q, hits, i + 1)
         IN IF pos < Len(sm.documents)
            THEN <<[score |-> SqDist(q, index.vecs[pos + 1]), rank |-> i]
                     @@ sm.documents[pos + 1]>> \o rest
            ELSE rest

Min(a, b) == IF a < b THEN a ELSE b

\* a faulty variant of SearchResults: k is ignored and one hit is returned
SearchResultsTopOne(index, sm, q, k) ==
    Results(index, sm, q, Nearest(index, q, Min(1, ntotal(index)), {}), 1)

SearchResults(index, sm, q, k) ==
    Results(index, sm, q, Nearest(index, q, Min(k, ntotal(index)), {}), 1)

\* ------------------------------------------------------------- call frames
NoArg == [t |-> "", texts |-> <<>>, embs |-> <<>>, metas |-> <<>>,
          dim |-> 0, q |-> <<>>, k |-> 0]
NoLast == [op |-> "none", t |-> "", kind |-> "none"]

\* the chunks of a call of add_documents: each text with its embedding and
\* its metadata
Chunks(a) == [i \in 1..Len(a.texts) |->
                [text |-> a.texts[i], emb |-> a.embs[i], meta |-> a.metas[i]]]

\* a faulty variant of After: a raise of add_documents is swallowed and the
\* run goes on to mark the chatbot ready
AfterAddIgnored(site, kind) ==
    CASE site = "top"        -> "idle"
      [] site = "gen_create" -> IF kind = OK THEN "gen_add" ELSE "gen_except"
      [] site = "gen_add"    -> "gen_ready"
      [] site = "del_store0" -> IF kind \in {OK, FNF} THEN "del_creating"
                                ELSE "del_except"
      [] site = "del_storeN" -> IF kind \in {OK, FNF} THEN "del_reset"
                                ELSE "del_except"
      [] site = "del_gen"    -> IF kind = OK THEN "del_return" ELSE "del_except"
      [] site = "qry_retrieve" -> IF kind = OK THEN "qry_generate"
                                  ELSE "qry_except"
      [] site = "ret_search" -> IF kind = OK THEN "ret_return" ELSE "ret_except"
      [] site = "dc_store"   -> "dc_files"

\* where a call continues in its caller: after a return (kind = OK) and
\* after a raise, following the try/except blocks around each call site
After(site, kind) ==
    CASE site = "top"        -> "idle"
      [] site = "gen_create" -> IF kind = OK THEN "gen_add" ELSE "gen_except"
      [] site = "gen_add"    -> IF kind = OK THEN "gen_ready" ELSE "gen_except"
      [] site = "del_store0" -> IF kind \in {OK, FNF} THEN "del_creating"
                                ELSE "del_except"
      [] site = "del_storeN" -> IF kind \in {OK, FNF} THEN "del_reset"
                                ELSE "del_except"
      [] site = "del_gen"    -> IF kind = OK THEN "del_return" ELSE "del_except"
      [] site = "qry_retrieve" -> IF kind = OK THEN "qry_generate"
                                  ELSE "qry_except"
      [] site = "ret_search" -> IF kind = OK THEN "ret_return" ELSE "ret_except"
      [] site = "dc_store"   -> "dc_files"

\* a call of the store returns `val` (kind = OK) or raises `kind`
Finish(p, kind, val) ==
    LET site == Head(stack[p]) IN
    /\ stack' = [stack EXCEPT ![p] = Tail(@)]
    /\ pc' = [pc EXCEPT ![p] = After(site, kind)]
    /\ exc' = [exc EXCEPT ![p] = kind]
    /\ ret' = [ret EXCEPT ![p] = val]
    /\ arg' = [arg EXCEPT ![p] = NoArg]
    /\ lidx' = [lidx EXCEPT ![p] = NoIndex]
    /\ lmeta' = [lmeta EXCEPT ![p] = NoMeta]

\* a step of a call that stays inside the call
Goto(p, label) ==
    /\ pc' = [pc EXCEPT ![p] = label]
    /\ UNCHANGED <<stack, exc, ret, arg>>

\* an injected fault uses up one unit of the budget
Fault == budget > 0 /\ budget' = budget - 1 /\ UNCHANGED <<dbBudget, cap, dep>>
DbFault == dbBudget > 0 /\ dbBudget' = dbBudget - 1 /\ UNCHANGED <<budget, cap, dep>>
NoFault == UNCHANGED <<budget, dbBudget, cap, dep>>

AddLabels == {"add_load", "add_write_index", "add_read_meta", "add_write_meta"}

\* ------------------------------------------------------------ create_store
\* a faulty variant of CreateCheck: an existing store is not looked for
CreateCheckDimensionOnly(p) ==
    /\ pc[p] = "create_check"
    /\ LET a == arg[p] IN
       IF a.dim <= 0
       THEN Finish(p, VErr, <<>>)
       ELSE Goto(p, "create_mkdir") /\ UNCHANGED <<lidx, lmeta>>
    /\ NoFault
    /\ UNCHANGED <<fsVars, dbVars, svcVars, last, ov, added, sent>>

\* lines 104-111: the dimension check and the os.path.exists check
CreateCheck(p) ==
    /\ pc[p] = "create_check"
    /\ LET a == arg[p] IN
       IF a.dim <= 0 \/ dir[a.t]
       THEN Finish(p, VErr, <<>>)
       ELSE Goto(p, "create_mkdir") /\ UNCHANGED <<lidx, lmeta>>
    /\ NoFault
    /\ UNCHANGED <<fsVars, dbVars, svcVars, last, ov, added, sent>>

\* line 115: os.makedirs(store_path, exist_ok=True)
CreateMkdir(p) ==
    /\ pc[p] = "create_mkdir"
    /\ \/ /\ dir' = [dir EXCEPT ![arg[p].t] = TRUE]
          /\ Goto(p, "create_write_index")
          /\ NoFault
       \/ /\ Fault
          /\ Goto(p, "create_cleanup")
          /\ UNCHANGED dir
    /\ UNCHANGED <<idx, meta, lidx, lmeta, dbVars, svcVars, last, ov, added, sent>>

\* lines 118-122: faiss.write_index of the empty index
CreateWriteIndex(p) ==
    /\ pc[p] = "create_write_index"
    /\ LET t == arg[p].t IN
       \/ /\ dir[t]
          /\ idx' = [idx EXCEPT ![t] = IndexFlatL2(arg[p].dim)]
          /\ Goto(p, "create_write_meta")
          /\ NoFault
       \/ /\ IF dir[t] THEN Fault ELSE NoFault
          /\ Goto(p, "create_cleanup")
          /\ UNCHANGED idx
    /\ UNCHANGED <<meta, dir, lidx, lmeta, dbVars, svcVars, last, ov, added, sent>>

\* a faulty variant of CreateWriteMeta: a failing write raises without the
\* cleanup
CreateWriteMetaNoCleanup(p) ==
    /\ pc[p] = "create_write_meta"
    /\ LET t == arg[p].t IN
       \/ /\ dir[t]
          /\ meta' = [meta EXCEPT ![t] = EmptyMetadata(t, arg[p].dim)]
          /\ added' = [added EXCEPT ![t] = 0]
          /\ sent' = [sent EXCEPT ![t] = <<>>]
          /\ Finish(p, OK, <<>>)
          /\ NoFault
       \/ /\ IF dir[t] THEN Fault ELSE NoFault
          /\ Finish(p, EExc, <<>>)
          /\ UNCHANGED <<meta, added, sent>>
    /\ UNCHANGED <<idx, dir, dbVars, svcVars, last, ov>>

\* lines 125-137: json.dump of the empty sidecar, then return
CreateWriteMeta(p) ==
    /\ pc[p] = "create_write_meta"
    /\ LET t == arg[p].t IN
       \/ /\ dir[t]
          /\ meta' = [meta EXCEPT ![t] = EmptyMetadata(t, arg[p].dim)]
          /\ added' = [added EXCEPT ![t] = 0]
          /\ sent' = [sent EXCEPT ![t] = <<>>]
          /\ Finish(p, OK, <<>>)
          /\ NoFault
       \/ /\ IF dir[t] THEN Fault ELSE NoFault
          /\ Goto(p, "create_cleanup")
          /\ UNCHANGED <<meta, lidx, lmeta, added, sent, qry>>
    /\ UNCHANGED <<idx, dir, dbVars, svcVars, last, ov>>

\* lines 139-144: the except block removes the directory and raises; a
\* failing rmtree raises in its place and leaves the directory
CreateCleanup(p) ==
    /\ pc[p] = "create_cleanup"
    /\ LET t == arg[p].t IN
       \/ /\ dir' = [dir EXCEPT ![t] = FALSE]
          /\ idx' = [idx EXCEPT ![t] = NoIndex]
          /\ meta' = [meta EXCEPT ![t] = NoMeta]
          /\ NoFault
       \/ /\ dir[t]
          /\ Fault
          /\ UNCHANGED fsVars
    /\ Finish(p, EExc, <<>>)
    /\ UNCHANGED <<dbVars, svcVars, last, ov, added, sent>>

\* -------------------------------------------------------------- load_store
\* lines 160-172: FileNotFoundError without an index file, else the index
\* read from it (a failing read raises Exception)
LoadKind(t, fault) == IF ~IndexExists(t) THEN FNF ELSE IF fault THEN EExc ELSE OK

LoadStore(p) ==
    /\ pc[p] = "load"
    /\ \/ NoFault /\ Finish(p, LoadKind(arg[p].t, FALSE), <<>>)
       \/ IndexExists(arg[p].t) /\ Fault /\ Finish(p, EExc, <<>>)
    /\ UNCHANGED <<fsVars, dbVars, svcVars, last, ov, added, sent>>

\* ----------------------------------------------------------- add_documents
\* a faulty variant of AddLoad: the store is loaded before the arguments are
\* validated
AddLoadBeforeValidation(p) ==
    /\ pc[p] = "add_load"
    /\ ntotal(idx[arg[p].t]) + Len(arg[p].texts) <= cap
    /\ LET a == arg[p]
           t == a.t
       IN \/ /\ NoFault
             /\ IF ~IndexExists(t) THEN Finish(p, FNF, <<>>)
                ELSE IF AddInvalid(a) THEN Finish(p, VErr, <<>>)
                ELSE IF Width(a.embs) # idx[t].d THEN Finish(p, VErr, <<>>)
                ELSE /\ lidx' = [lidx EXCEPT ![p] = IndexAdd(idx[t], a.embs)]
                     /\ pc' = [pc EXCEPT ![p] = "add_write_index"]
                     /\ UNCHANGED <<stack, exc, ret, arg, lmeta>>
          \/ /\ ~AddInvalid(a) /\ IndexExists(t)
             /\ Fault
             /\ Finish(p, EExc, <<>>)
    /\ UNCHANGED <<fsVars, dbVars, svcVars, last, ov, added, sent>>

\* lines 195-222: validation, load_store, the width check, index.add
\* (the model stops a call that would grow the index beyond `cap`)
AddLoad(p) ==
    /\ pc[p] = "add_load"
    /\ ntotal(idx[arg[p].t]) + Len(arg[p].texts) <= cap
    /\ LET a == arg[p]
           t == a.t
       IN \/ /\ NoFault
             /\ IF AddInvalid(a) THEN Finish(p, VErr, <<>>)
                ELSE IF ~IndexExists(t) THEN Finish(p, FNF, <<>>)
                ELSE IF Width(a.embs) # idx[t].d THEN Finish(p, VErr, <<>>)
                ELSE /\ lidx' = [lidx EXCEPT ![p] = IndexAdd(idx[t], a.embs)]
                     /\ pc' = [pc EXCEPT ![p] = "add_write_index"]
                     /\ UNCHANGED <<stack, exc, ret, arg, lmeta>>
          \/ /\ ~AddInvalid(a) /\ IndexExists(t)
             /\ Fault
             /\ Finish(p, EExc, <<>>)
    /\ UNCHANGED <<fsVars, dbVars, svcVars, last, ov, added, sent>>

\* lines 225-226: faiss.write_index(index, index_path)
AddWriteIndex(p) ==
    /\ pc[p] = "add_write_index"
    /\ LET t == arg[p].t IN
       \/ /\ dir[t]
          /\ idx' = [idx EXCEPT ![t] = lidx[p]]
          /\ Goto(p, "add_read_meta")
          /\ UNCHANGED <<lidx, lmeta>>
          /\ NoFault
       \/ /\ IF dir[t] THEN Fault ELSE NoFault
          /\ Finish(p, EExc, <<>>)
          /\ UNCHANGED idx
    /\ UNCHANGED <<meta, dir, dbVars, svcVars, last, ov, added, sent>>

\* lines 229-242: the sidecar is read and the new records are appended to
\* the local copy
AddReadMeta(p) ==
    /\ pc[p] = "add_read_meta"
    /\ Len(meta[arg[p].t].documents) + Len(arg[p].texts) <= cap
    /\ LET a == arg[p]
           t == a.t
       IN \/ /\ NoFault
             /\ IF ~MetaExists(t) THEN Finish(p, FNF, <<>>)
                ELSE /\ lmeta' = [lmeta EXCEPT ![p] =
                                    AppendDocuments(meta[t], a.texts, a.metas)]
                     /\ Goto(p, "add_write_meta")
                     /\ UNCHANGED lidx
          \/ /\ MetaExists(t)
             /\ Fault
             /\ Finish(p, EExc, <<>>)
    /\ UNCHANGED <<fsVars, dbVars, svcVars, last, ov, added, sent>>

\* lines 245-251: the sidecar is written back, then return
AddWriteMeta(p) ==
    /\ pc[p] = "add_write_meta"
    /\ LET t == arg[p].t IN
       \/ /\ NoFault
          /\ IF dir[t]
             THEN /\ meta' = [meta EXCEPT ![t] = lmeta[p]]
                  /\ added' = [added EXCEPT ![t] = @ + Len(arg[p].texts)]
                  /\ sent' = [sent EXCEPT ![t] = @ \o Chunks(arg[p])]
                  /\ Finish(p, OK, <<>>)
             ELSE UNCHANGED <<meta, added, sent>> /\ Finish(p, FNF, <<>>)
       \/ /\ dir[t]
          /\ Fault
          /\ UNCHANGED <<meta, added, sent>>
          /\ Finish(p, EExc, <<>>)
    /\ UNCHANGED <<idx, dir, dbVars, svcVars, last, ov>>

\* ------------------------------------------------------- similarity_search
\* lines 283-288: the k check, then load_store
SearchLoad(p) ==
    /\ pc[p] = "search_load"
    /\ LET a == arg[p]
           t == a.t
       IN \/ /\ NoFault
             /\ IF a.k <= 0 THEN Finish(p, VErr, <<>>)
                ELSE IF ~IndexExists(t) THEN Finish(p, FNF, <<>>)
                ELSE /\ lidx' = [lidx EXCEPT ![p] = idx[t]]
                     /\ Goto(p, "search_read_meta")
                     /\ UNCHANGED lmeta
          \/ /\ a.k > 0 /\ IndexExists(t)
             /\ Fault
             /\ Finish(p, EExc, <<>>)
    /\ UNCHANGED <<fsVars, dbVars, svcVars, last, ov, added, sent>>

\* a faulty variant of SearchReadMeta: the width of the query is checked
\* before the index is found empty
SearchReadMetaWidthFirst(p) ==
    /\ pc[p] = "search_read_meta"
    /\ LET a == arg[p]
           t == a.t
       IN /\ NoFault
          /\ IF ~MetaExists(t) THEN Finish(p, FNF, <<>>)
             ELSE IF Len(a.q) # lidx[p].d THEN Finish(p, VErr, <<>>)
             ELSE IF ntotal(lidx[p]) = 0 THEN Finish(p, OK, <<>>)
             ELSE Finish(p, OK, SearchResults(lidx[p], meta[t], a.q, a.k))
    /\ UNCHANGED <<fsVars, dbVars, svcVars, last, ov, added, sent>>

\* lines 290-337: the sidecar is read, then the empty-index check, the width
\* check, the clamp of k, the search and the result loop
SearchReadMeta(p) ==
    /\ pc[p] = "search_read_meta"
    /\ LET a == arg[p]
           t == a.t
       IN \/ /\ NoFault
             /\ IF ~MetaExists(t) THEN Finish(p, FNF, <<>>)
                ELSE IF ntotal(lidx[p]) = 0 THEN Finish(p, OK, <<>>)
                ELSE IF Len(a.q) # lidx[p].d THEN Finish(p, VErr, <<>>)
                ELSE Finish(p, OK, SearchResults(lidx[p], meta[t], a.q, a.k))
          \/ /\ MetaExists(t)
             /\ Fault
             /\ Finish(p, EExc, <<>>)
    /\ UNCHANGED <<fsVars, dbVars, svcVars, last, ov, added, sent>>

\* a faulty variant of DeleteCheck: a missing store is passed over in silence
DeleteCheckQuiet(p) ==
    /\ pc[p] = "delete_check"
    /\ IF ~dir[arg[p].t] THEN Finish(p, OK, <<>>)
       ELSE Goto(p, "delete_rmtree") /\ UNCHANGED <<lidx, lmeta>>
    /\ NoFault
    /\ UNCHANGED <<fsVars, dbVars, svcVars, last, ov, added, sent>>

\* ------------------------------------------------------------ delete_store
\* lines 358-361
DeleteCheck(p) ==
    /\ pc[p] = "delete_check"
    /\ IF ~dir[arg[p].t] THEN Finish(p, FNF, <<>>)
       ELSE Goto(p, "delete_rmtree") /\ UNCHANGED <<lidx, lmeta>>
    /\ NoFault
    /\ UNCHANGED <<fsVars, dbVars, svcVars, last, ov, added, sent>>

\* a faulty variant of DeleteRmtree: the call returns without removing
\* the directory
DeleteRmtreeKeepsFiles(p) ==
    /\ pc[p] = "delete_rmtree"
    /\ NoFault
    /\ Finish(p, OK, <<>>)
    /\ UNCHANGED <<fsVars, added, sent, dbVars, svcVars, last, ov>>

\* lines 363-369: shutil.rmtree; it raises when the directory is gone or
\* cannot be removed
DeleteRmtree(p) ==
    /\ pc[p] = "delete_rmtree"
    /\ LET t == arg[p].t IN
       \/ /\ dir[t]
          /\ dir' = [dir EXCEPT ![t] = FALSE]
          /\ idx' = [idx EXCEPT ![t] = NoIndex]
          /\ meta' = [meta EXCEPT ![t] = NoMeta]
          /\ added' = [added EXCEPT ![t] = 0]
          /\ sent' = [sent EXCEPT ![t] = <<>>]
          /\ NoFault
          /\ Finish(p, OK, <<>>)
       \/ /\ IF dir[t] THEN Fault ELSE NoFault
          /\ UNCHANGED <<fsVars, added, sent>>
          /\ Finish(p, EExc, <<>>)
    /\ UNCHANGED <<dbVars, svcVars, last, ov>>

\* ------------------------------------------------- direct calls of the store
NoRow  == [chatbot_id |-> "", filename |-> "", status |-> "none"]
NoFile == [exists |-> FALSE, chunks |-> 0]
NoBefore == [idx |-> NoIndex, meta |-> NoMeta, dir |-> FALSE, status |-> "",
             docs |-> <<>>, again |-> FALSE]
NoGen == [t |-> "", documents |-> <<>>, i |-> 0, all_chunks |-> <<>>,
          all_metadata |-> <<>>, embeddings |-> <<>>, encoded |-> 0,
          cause |-> "none", before |-> NoBefore]
NoDel == [t |-> "", d |-> "", remaining |-> 0, reset |-> <<>>]

\* the frame of a request of the query service or of delete_chatbot: its
\* arguments, the calls made to the embedding provider (encodes) and to the
\* generative model (generates), the words of the message of the exception
\* under way that matter ("not found", "embedding", "gemini", "api"), and
\* what the request returned or raised, with the HTTP status of the route
NoQry == [op |-> "none", t |-> "", question |-> <<"", 0>>, k |-> 0,
          encodes |-> 0, generates |-> 0, msg |-> {}, kind |-> "none",
          out |-> <<>>, http |-> 0, history |-> <<>>, prompt |-> <<>>]

Idle(p) == pc[p] = "idle"

\* a thread enters a call of the store made by the web layer
Enter(p, a, label) ==
    /\ Idle(p)
    /\ pc' = [pc EXCEPT ![p] = label]
    /\ stack' = [stack EXCEPT ![p] = <<"top">>]
    /\ arg' = [arg EXCEPT ![p] = a]
    /\ exc' = [exc EXCEPT ![p] = "none"]
    /\ ret' = [ret EXCEPT ![p] = <<>>]
    /\ UNCHANGED <<fsVars, dbVars, svcVars, lidx, lmeta, last, added, sent, budget, dbBudget, cap, dep>>

\* the batch a caller passes: n texts of its own, their embeddings, and one
\* metadata dictionary per text
BatchTexts(p, n) == [i \in 1..n |-> <<p, i>>]
BatchMetas(p, n) == [i \in 1..n |-> [document_id |-> p, filename |-> p,
                                     chunk_index |-> i - 1, total_chunks |-> n]]
QueryVecs == [1..Dim -> {0, 1}]

\* the threads inside add_documents for chatbot t
Adding(t) == {r \in Procs : pc[r] \in AddLabels /\ arg[r].t = t}

StartCreate(p, t, dimension) ==
    /\ Enter(p, [NoArg EXCEPT !.t = t, !.dim = dimension], "create_check")
    /\ ov' = [ov EXCEPT ![p] = "none"]

StartLoad(p, t) ==
    /\ Enter(p, [NoArg EXCEPT !.t = t], "load")
    /\ ov' = [ov EXCEPT ![p] = "none"]

StartAdd(p, t, n) ==
    /\ ntotal(idx[t]) + n <= cap
    /\ Len(meta[t].documents) + n <= cap
    /\ added[t] + n <= cap
    /\ Enter(p, [NoArg EXCEPT !.t = t, !.texts = BatchTexts(p, n),
                              !.embs = EncodeAll(BatchTexts(p, n)),
                              !.metas = BatchMetas(p, n)],
             "add_load")
    /\ ov' = [r \in Procs |->
                IF r \in Adding(t) THEN "add"
                ELSE IF r = p THEN (IF Adding(t) # {} THEN "add" ELSE "none")
                ELSE ov[r]]

StartSearch(p, t, q, k) ==
    /\ Enter(p, [NoArg EXCEPT !.t = t, !.q = q, !.k = k], "search_load")
    /\ ov' = [ov EXCEPT ![p] = IF Adding(t) # {} THEN "search" ELSE "none"]

StartDelete(p, t) ==
    /\ Enter(p, [NoArg EXCEPT !.t = t], "delete_check")
    /\ ov' = [ov EXCEPT ![p] = "none"]

\* ---------------------------------------------------------------- initially
\* no draft file was uploaded and no chatbot was deployed from the draft
NoDeploy == [files |-> 0, rows |-> 0, deployed |-> FALSE]

InitCommon ==
    /\ idx = [t \in Tenants |-> NoIndex]
    /\ meta = [t \in Tenants |-> NoMeta]
    /\ dir = [t \in Tenants |-> FALSE]
    /\ cbStatus = [t \in Tenants |-> "creating"]
    /\ docs = [d \in DocIds |-> NoRow]
    /\ upfile = [d \in DocIds |-> NoFile]
    /\ pc = [p \in Procs |-> "idle"]
    /\ stack = [p \in Procs |-> <<>>]
    /\ arg = [p \in Procs |-> NoArg]
    /\ lidx = [p \in Procs |-> NoIndex]
    /\ lmeta = [p \in Procs |-> NoMeta]
    /\ exc = [p \in Procs |-> "none"]
    /\ ret = [p \in Procs |-> <<>>]
    /\ gen = [p \in Procs |-> NoGen]
    /\ del = [p \in Procs |-> NoDel]
    /\ qry = [p \in Procs |-> NoQry]
    /\ last = NoLast
    /\ ov = [p \in Procs |-> "none"]
    /\ added = [t \in Tenants |-> 0]
    /\ sent = [t \in Tenants |-> <<>>]
    /\ dep = NoDeploy

\* --------------------------------------------------------- DocumentService
MaxFilesPerChatbot == 10
DocOrder == <<"d1", "d2">>

\* the documents table, in table order
Rows == [i \in 1..Len(DocOrder) |-> docs[DocOrder[i]]]

\* SELECT ... FROM documents WHERE chatbot_id = ?: the rows of chatbot t
RowsOf(t) == SelectSeq(DocOrder, LAMBDA d : docs[d].chatbot_id = t)

\* a faulty variant of UploadedOf: the status filter is missing
UploadedOfAnyStatus(t) == SelectSeq(DocOrder, LAMBDA d : docs[d].chatbot_id = t)

\* lines 333-341: the rows of chatbot t in status `uploaded`
UploadedOf(t) ==
    SelectSeq(DocOrder, LAMBDA d : docs[d].chatbot_id = t /\ docs[d].status = "uploaded")

\* UPDATE documents SET status = ? WHERE id = ?
SetDocStatus(d, status) ==
    IF docs[d].status = "none" THEN docs ELSE [docs EXCEPT ![d].status = status]

\* UPDATE chatbots SET status = ? WHERE id = ?
SetChatbotStatus(t, status) ==
    IF cbStatus[t] = "none" THEN cbStatus ELSE [cbStatus EXCEPT ![t] = status]

\* the text splitter: the chunks of document d, whose text splits into n
ChunksOf(d, n) == [i \in 1..n |-> <<d, i>>]

\* a faulty variant of ChunkMetadata: the sibling count is the number of
\* chunks seen so far instead of the number of chunks of the document
ChunkMetadataRunningCount(d, filename, n) ==
    [i \in 1..n |-> [document_id |-> d, filename |-> filename,
                     chunk_index |-> i - 1, total_chunks |-> i]]

\* lines 401-408: the metadata of the chunks of one document
ChunkMetadata(d, filename, n) ==
    [i \in 1..n |-> [document_id |-> d, filename |-> filename,
                     chunk_index |-> i - 1, total_chunks |-> n]]

\* a request of the document service starts, or is called by another one
SvcEnter(p, site, label) ==
    /\ pc' = [pc EXCEPT ![p] = label]
    /\ stack' = [stack EXCEPT ![p] = <<site>> \o @]
    /\ exc' = [exc EXCEPT ![p] = "none"]
    /\ ret' = [ret EXCEPT ![p] = <<>>]

\* a request of the document service returns (kind = OK) or raises
SvcFinish(p, op, t, kind) ==
    LET site == Head(stack[p]) IN
    /\ stack' = [stack EXCEPT ![p] = Tail(@)]
    /\ pc' = [pc EXCEPT ![p] = After(site, kind)]
    /\ exc' = [exc EXCEPT ![p] = kind]
    /\ last' = IF site = "top" THEN [op |-> op, t |-> t, kind |-> kind] ELSE last

\* a step inside a request; `kind` is the exception on its way, if any
Step(p, label, kind) ==
    /\ pc' = [pc EXCEPT ![p] = label]
    /\ exc' = [exc EXCEPT ![p] = kind]
    /\ UNCHANGED <<stack, last>>

\* line 213: the identifier of an uploaded document is a fresh uuid4: no
\* row, no file and no record of any sidecar carries it
FreshId(d) ==
    /\ docs[d] = NoRow /\ ~upfile[d].exists
    /\ \A s \in Tenants : \A i \in 1..Len(meta[s].documents) :
          meta[s].documents[i].document_id # d

\* upload_documents, lines 156-259, for one valid file whose text splits
\* into c chunks (0: blank text, -1: the extractor raises on it)
Upload(p, t, d, c) ==
    /\ Idle(p)
    /\ cbStatus[t] # "none"
    /\ FreshId(d)
    /\ IF Len(RowsOf(t)) + 1 > MaxFilesPerChatbot
       THEN /\ last' = [op |-> "upload_documents", t |-> t, kind |-> VErr]
            /\ exc' = [exc EXCEPT ![p] = VErr]
            /\ UNCHANGED <<docs, upfile>>
       ELSE /\ upfile' = [upfile EXCEPT ![d] = [exists |-> TRUE, chunks |-> c]]
            /\ docs' = [docs EXCEPT ![d] = [chatbot_id |-> t, filename |-> d,
                                            status |-> "uploaded"]]
            /\ last' = [op |-> "upload_documents", t |-> t, kind |-> OK]
            /\ exc' = [exc EXCEPT ![p] = OK]
    /\ gen' = [gen EXCEPT ![p] = NoGen]
    /\ del' = [del EXCEPT ![p] = NoDel]
    /\ qry' = [qry EXCEPT ![p] = NoQry]
    /\ UNCHANGED <<fsVars, cbStatus, pc, stack, callVars, ov, added, sent, budget, dbBudget, cap, dep>>

\* ------------------------------------------------------ generate_embeddings
GenLabels == {"gen_select", "gen_mark_processing", "gen_doc_processing",
              "gen_doc_extract", "gen_doc_blank", "gen_doc_completed",
              "gen_doc_except", "gen_encode", "gen_load", "gen_add",
              "gen_ready", "gen_except"}

\* the frame of a run for chatbot t, with the state it starts from
GenFrame(t) ==
    [NoGen EXCEPT !.t = t,
                  !.before = [idx |-> idx[t], meta |-> meta[t], dir |-> dir[t],
                              status |-> cbStatus[t],
                              docs |-> Rows,
                              again |-> last = [op |-> "generate_embeddings",
                                                t |-> t, kind |-> OK]]]

StartGen(p, t) ==
    /\ Idle(p)
    /\ SvcEnter(p, "top", "gen_select")
    /\ gen' = [gen EXCEPT ![p] = GenFrame(t)]
    /\ del' = [del EXCEPT ![p] = NoDel]
    /\ qry' = [qry EXCEPT ![p] = NoQry]
    /\ UNCHANGED <<fsVars, dbVars, arg, lidx, lmeta, last, ov, added, sent, budget, dbBudget, cap, dep>>

\* a faulty variant of GenSelect: the run takes every document of the
\* chatbot, whatever its status
GenSelectEveryDocument(p) ==
    /\ pc[p] = "gen_select"
    /\ \/ /\ NoFault
          /\ gen' = [gen EXCEPT ![p].documents = RowsOf(gen[p].t)]
          /\ IF RowsOf(gen[p].t) = <<>>
             THEN Step(p, "gen_except", VErr)
             ELSE Step(p, "gen_mark_processing", "none")
       \/ /\ DbFault
          /\ Step(p, "gen_except", EExc)
          /\ UNCHANGED gen
    /\ UNCHANGED <<fsVars, dbVars, callVars, del, ov, added, sent, qry>>

\* lines 333-346: the uploaded documents are selected; none is a ValueError
GenSelect(p) ==
    /\ pc[p] = "gen_select"
    /\ \/ /\ NoFault
          /\ gen' = [gen EXCEPT ![p].documents = UploadedOf(gen[p].t)]
          /\ IF UploadedOf(gen[p].t) = <<>>
             THEN Step(p, "gen_except", VErr)
             ELSE Step(p, "gen_mark_processing", "none")
       \/ /\ DbFault
          /\ Step(p, "gen_except", EExc)
          /\ UNCHANGED gen
    /\ UNCHANGED <<fsVars, dbVars, callVars, del, ov, added, sent, qry>>

\* lines 348-358: the chatbot is marked processing
GenMarkProcessing(p) ==
    /\ pc[p] = "gen_mark_processing"
    /\ \/ /\ NoFault
          /\ cbStatus' = SetChatbotStatus(gen[p].t, "processing")
          /\ gen' = [gen EXCEPT ![p].i = 1]
          /\ Step(p, "gen_doc_processing", "none")
       \/ /\ DbFault
          /\ Step(p, "gen_except", EExc)
          /\ UNCHANGED <<cbStatus, gen>>
    /\ UNCHANGED <<fsVars, docs, upfile, callVars, del, ov, added, sent, qry>>

\* the loop of line 361 moves to the next document, or ends
NextDoc(p) ==
    /\ gen' = [gen EXCEPT ![p].i = @ + 1]
    /\ Step(p, IF gen[p].i < Len(gen[p].documents)
               THEN "gen_doc_processing" ELSE "gen_encode", "none")

CurDoc(p) == gen[p].documents[gen[p].i]

\* lines 368-375: the document is marked processing
GenDocProcessing(p) ==
    /\ pc[p] = "gen_doc_processing"
    /\ \/ /\ NoFault
          /\ docs' = SetDocStatus(CurDoc(p), "processing")
          /\ Step(p, "gen_doc_extract", "none")
       \/ /\ DbFault
          /\ Step(p, "gen_doc_except", EExc)
          /\ UNCHANGED docs
    /\ UNCHANGED <<fsVars, cbStatus, upfile, callVars, svcVars, ov, added, sent>>

\* lines 377-408: the text is extracted and split, the chunks and their
\* metadata are appended to the run's lists
GenDocExtract(p) ==
    /\ pc[p] = "gen_doc_extract"
    /\ LET d == CurDoc(p)
           f == upfile[d]
       IN IF ~f.exists \/ f.chunks < 0
          THEN Step(p, "gen_doc_except", EExc) /\ UNCHANGED gen
          ELSE IF f.chunks = 0
          THEN Step(p, "gen_doc_blank", "none") /\ UNCHANGED gen
          ELSE /\ gen' = [gen EXCEPT
                    ![p].all_chunks = @ \o ChunksOf(d, f.chunks),
                    ![p].all_metadata =
                        @ \o ChunkMetadata(d, docs[d].filename, f.chunks)]
               /\ Step(p, "gen_doc_completed", "none")
    /\ NoFault
    /\ UNCHANGED <<fsVars, dbVars, callVars, del, ov, added, sent, qry>>

\* a faulty variant of GenDocBlank: blank text marks the document error and
\* aborts the run
GenDocBlankAborts(p) ==
    /\ pc[p] = "gen_doc_blank"
    /\ NoFault
    /\ docs' = SetDocStatus(CurDoc(p), "error")
    /\ Step(p, "gen_except", VErr)
    /\ UNCHANGED <<fsVars, cbStatus, upfile, callVars, svcVars, ov, added, sent>>

\* lines 380-389: blank text marks the document error, the loop continues
GenDocBlank(p) ==
    /\ pc[p] = "gen_doc_blank"
    /\ \/ /\ NoFault
          /\ docs' = SetDocStatus(CurDoc(p), "error")
          /\ NextDoc(p)
       \/ /\ DbFault
          /\ Step(p, "gen_doc_except", EExc)
          /\ UNCHANGED <<docs, gen>>
    /\ UNCHANGED <<fsVars, cbStatus, upfile, callVars, del, ov, added, sent, qry>>

\* lines 410-419: the document is marked completed
GenDocCompleted(p) ==
    /\ pc[p] = "gen_doc_completed"
    /\ \/ /\ NoFault
          /\ docs' = SetDocStatus(CurDoc(p), "completed")
          /\ NextDoc(p)
       \/ /\ DbFault
          /\ Step(p, "gen_doc_except", EExc)
          /\ UNCHANGED <<docs, gen>>
    /\ UNCHANGED <<fsVars, cbStatus, upfile, callVars, del, ov, added, sent, qry>>

\* a faulty variant of GenDocExcept: the document that failed is skipped
\* without a status
GenDocExceptSkips(p) ==
    /\ pc[p] = "gen_doc_except"
    /\ \/ /\ NoFault
          /\ UNCHANGED docs
          /\ NextDoc(p)
       \/ /\ DbFault
          /\ Step(p, "gen_except", EExc)
          /\ UNCHANGED <<docs, gen>>
    /\ UNCHANGED <<fsVars, cbStatus, upfile, callVars, del, ov, added, sent, qry>>

\* lines 421-431: the per-document except block marks the document error;
\* when that write fails the exception leaves the loop
GenDocExcept(p) ==
    /\ pc[p] = "gen_doc_except"
    /\ \/ /\ NoFault
          /\ docs' = SetDocStatus(CurDoc(p), "error")
          /\ NextDoc(p)
       \/ /\ DbFault
          /\ Step(p, "gen_except", EExc)
          /\ UNCHANGED <<docs, gen>>
    /\ UNCHANGED <<fsVars, cbStatus, upfile, callVars, del, ov, added, sent, qry>>

\* a faulty variant of GenEncode: the check for an empty chunk list is
\* missing
GenEncodeUnchecked(p) ==
    /\ pc[p] = "gen_encode"
    /\ \/ /\ NoFault
          /\ gen' = [gen EXCEPT ![p].embeddings = EncodeAll(gen[p].all_chunks),
                                ![p].encoded = @ + 1]
          /\ Step(p, "gen_load", "none")
       \/ /\ Fault
          /\ gen' = [gen EXCEPT ![p].encoded = @ + 1]
          /\ Step(p, "gen_except", EExc)
    /\ UNCHANGED <<fsVars, dbVars, callVars, del, ov, added, sent, qry>>

\* lines 433-438: no chunk at all raises; else one encode call over all chunks
GenEncode(p) ==
    /\ pc[p] = "gen_encode"
    /\ IF gen[p].all_chunks = <<>>
       THEN Step(p, "gen_except", EExc) /\ NoFault /\ UNCHANGED gen
       ELSE \/ /\ NoFault
               /\ gen' = [gen EXCEPT ![p].embeddings = EncodeAll(gen[p].all_chunks),
                                     ![p].encoded = @ + 1]
               /\ Step(p, "gen_load", "none")
            \/ /\ Fault
               /\ gen' = [gen EXCEPT ![p].encoded = @ + 1]
               /\ Step(p, "gen_except", EExc)
    /\ UNCHANGED <<fsVars, dbVars, callVars, del, ov, added, sent, qry>>

\* lines 440-447: load_store; without an index file create_store is called
GenLoad(p) ==
    /\ pc[p] = "gen_load"
    /\ \/ /\ NoFault
          /\ IF IndexExists(gen[p].t)
             THEN Step(p, "gen_add", "none") /\ UNCHANGED <<arg, ret>>
             ELSE /\ SvcEnter(p, "gen_create", "create_check")
                  /\ arg' = [arg EXCEPT ![p] = [NoArg EXCEPT !.t = gen[p].t,
                                                             !.dim = Dim]]
                  /\ UNCHANGED last
       \/ /\ IndexExists(gen[p].t)
          /\ Fault
          /\ Step(p, "gen_except", EExc)
          /\ UNCHANGED <<arg, ret>>
    /\ UNCHANGED <<fsVars, dbVars, lidx, lmeta, svcVars, ov, added, sent>>

\* lines 449-455: add_documents is called with the run's lists
GenAdd(p) ==
    /\ pc[p] = "gen_add"
    /\ SvcEnter(p, "gen_add", "add_load")
    /\ arg' = [arg EXCEPT ![p] = [NoArg EXCEPT !.t = gen[p].t,
                                               !.texts = gen[p].all_chunks,
                                               !.embs = gen[p].embeddings,
                                               !.metas = gen[p].all_metadata]]
    /\ NoFault
    /\ UNCHANGED <<fsVars, dbVars, lidx, lmeta, svcVars, last, ov, added, sent>>

\* lines 457-470: the chatbot is marked ready and the run returns
GenReady(p) ==
    /\ pc[p] = "gen_ready"
    /\ \/ /\ NoFault
          /\ cbStatus' = SetChatbotStatus(gen[p].t, "ready")
          /\ SvcFinish(p, "generate_embeddings", gen[p].t, OK)
       \/ /\ DbFault
          /\ Step(p, "gen_except", EExc)
          /\ UNCHANGED cbStatus
    /\ UNCHANGED <<fsVars, docs, upfile, callVars, svcVars, ov, added, sent>>

\* a faulty variant of GenExcept: when the write of the error status fails,
\* the exception of that write is the one raised
GenExceptRaisesUpdateError(p) ==
    /\ pc[p] = "gen_except"
    /\ \/ /\ NoFault
          /\ cbStatus' = SetChatbotStatus(gen[p].t, "error")
          /\ gen' = [gen EXCEPT ![p].cause = exc[p]]
       \/ /\ DbFault
          /\ gen' = [gen EXCEPT ![p].cause = "sqlite3.Error"]
          /\ UNCHANGED cbStatus
    /\ SvcFinish(p, "generate_embeddings", gen[p].t, EExc)
    /\ UNCHANGED <<fsVars, docs, upfile, callVars, del, ov, added, sent, qry>>

\* lines 472-487: the chatbot is marked error (a failure of that write is
\* only logged) and Exception is raised from the exception e that was
\* caught, whose kind the frame keeps as the cause
GenExcept(p) ==
    /\ pc[p] = "gen_except"
    /\ \/ /\ NoFault
          /\ cbStatus' = SetChatbotStatus(gen[p].t, "error")
       \/ /\ DbFault
          /\ UNCHANGED cbStatus
    /\ gen' = [gen EXCEPT ![p].cause = exc[p]]
    /\ SvcFinish(p, "generate_embeddings", gen[p].t, EExc)
    /\ UNCHANGED <<fsVars, docs, upfile, callVars, del, ov, added, sent, qry>>

\* ---------------------------------------------------------- delete_document
StartDeleteDocument(p, t, d) ==
    /\ Idle(p)
    /\ SvcEnter(p, "top", "del_select")
    /\ del' = [del EXCEPT ![p] = [NoDel EXCEPT !.t = t, !.d = d]]
    /\ gen' = [gen EXCEPT ![p] = NoGen]
    /\ qry' = [qry EXCEPT ![p] = NoQry]
    /\ UNCHANGED <<fsVars, dbVars, arg, lidx, lmeta, last, ov, added, sent, budget, dbBudget, cap, dep>>

\* a faulty variant of DelSelect: the row is looked up by its identifier
\* alone, whatever chatbot it belongs to
DelSelectAnyChatbot(p) ==
    /\ pc[p] = "del_select"
    /\ \/ /\ NoFault
          /\ IF docs[del[p].d].status # "none"
             THEN Step(p, "del_file", "none")
             ELSE SvcFinish(p, "delete_document", del[p].t, VErr)
       \/ /\ DbFault
          /\ Step(p, "del_except", EExc)
    /\ UNCHANGED <<fsVars, dbVars, callVars, svcVars, ov, added, sent>>

\* lines 507-522: the row is looked up; a missing row is a ValueError
DelSelect(p) ==
    /\ pc[p] = "del_select"
    /\ \/ /\ NoFault
          /\ IF docs[del[p].d].chatbot_id = del[p].t /\ docs[del[p].d].status # "none"
             THEN Step(p, "del_file", "none")
             ELSE SvcFinish(p, "delete_document", del[p].t, VErr)
       \/ /\ DbFault
          /\ Step(p, "del_except", EExc)
    /\ UNCHANGED <<fsVars, dbVars, callVars, svcVars, ov, added, sent>>

\* lines 524-531: the uploaded file is removed; a failure is only logged
DelFile(p) ==
    /\ pc[p] = "del_file"
    /\ \/ /\ NoFault
          /\ upfile' = [upfile EXCEPT ![del[p].d] = NoFile]
       \/ /\ upfile[del[p].d].exists
          /\ Fault
          /\ UNCHANGED upfile
    /\ Step(p, "del_row", "none")
    /\ UNCHANGED <<fsVars, cbStatus, docs, callVars, svcVars, ov, added, sent>>

\* lines 533-540: the row is deleted
DelRow(p) ==
    /\ pc[p] = "del_row"
    /\ \/ /\ NoFault
          /\ docs' = [docs EXCEPT ![del[p].d] = NoRow]
          /\ Step(p, "del_count", "none")
       \/ /\ DbFault
          /\ Step(p, "del_except", EExc)
          /\ UNCHANGED docs
    /\ UNCHANGED <<fsVars, cbStatus, upfile, callVars, svcVars, ov, added, sent>>

\* lines 542-551 and 572-580: the remaining rows are counted, then
\* delete_store is called in either branch
DelCount(p) ==
    /\ pc[p] = "del_count"
    /\ \/ /\ NoFault
          /\ del' = [del EXCEPT ![p].remaining = Len(RowsOf(del[p].t))]
          /\ SvcEnter(p, IF Len(RowsOf(del[p].t)) = 0 THEN "del_store0"
                         ELSE "del_storeN", "delete_check")
          /\ arg' = [arg EXCEPT ![p] = [NoArg EXCEPT !.t = del[p].t]]
          /\ UNCHANGED last
       \/ /\ DbFault
          /\ Step(p, "del_except", EExc)
          /\ UNCHANGED <<del, arg, ret>>
    /\ UNCHANGED <<fsVars, dbVars, lidx, lmeta, gen, ov, added, sent, qry>>

\* lines 558-571: no document remains, the chatbot goes back to creating
DelCreating(p) ==
    /\ pc[p] = "del_creating"
    /\ \/ /\ NoFault
          /\ cbStatus' = SetChatbotStatus(del[p].t, "creating")
          /\ SvcFinish(p, "delete_document", del[p].t, OK)
       \/ /\ DbFault
          /\ Step(p, "del_except", EExc)
          /\ UNCHANGED cbStatus
    /\ UNCHANGED <<fsVars, docs, upfile, callVars, svcVars, ov, added, sent>>

\* a faulty variant of DelReset: the UPDATE has no WHERE clause and sets the
\* documents of every chatbot back to uploaded
DelResetEveryChatbot(p) ==
    /\ pc[p] = "del_reset"
    /\ \/ /\ NoFault
          /\ docs' = [d \in DocIds |->
                        IF docs[d].status # "none"
                        THEN [docs[d] EXCEPT !.status = "uploaded"] ELSE docs[d]]
          /\ del' = [del EXCEPT ![p].reset = Rows]
          /\ Step(p, "del_regen", "none")
       \/ /\ DbFault
          /\ Step(p, "del_except", EExc)
          /\ UNCHANGED <<docs, del>>
    /\ UNCHANGED <<fsVars, cbStatus, upfile, callVars, gen, ov, added, sent, qry>>

\* lines 582-589: every remaining document is set back to uploaded (the
\* frame keeps the rows as they were, as history)
DelReset(p) ==
    /\ pc[p] = "del_reset"
    /\ \/ /\ NoFault
          /\ docs' = [d \in DocIds |->
                        IF docs[d].chatbot_id = del[p].t /\ docs[d].status # "none"
                        THEN [docs[d] EXCEPT !.status = "uploaded"] ELSE docs[d]]
          /\ del' = [del EXCEPT ![p].reset = Rows]
          /\ Step(p, "del_regen", "none")
       \/ /\ DbFault
          /\ Step(p, "del_except", EExc)
          /\ UNCHANGED <<docs, del>>
    /\ UNCHANGED <<fsVars, cbStatus, upfile, callVars, gen, ov, added, sent, qry>>

\* line 592: generate_embeddings is called
DelRegen(p) ==
    /\ pc[p] = "del_regen"
    /\ SvcEnter(p, "del_gen", "gen_select")
    /\ gen' = [gen EXCEPT ![p] = GenFrame(del[p].t)]
    /\ NoFault
    /\ UNCHANGED <<fsVars, dbVars, arg, lidx, lmeta, del, last, ov, added, sent, qry>>

\* lines 594-598: the regenerated store is reported
DelReturn(p) ==
    /\ pc[p] = "del_return"
    /\ SvcFinish(p, "delete_document", del[p].t, OK)
    /\ NoFault
    /\ UNCHANGED <<fsVars, dbVars, callVars, svcVars, ov, added, sent>>

\* lines 600-604: any other exception is raised as Exception
DelExcept(p) ==
    /\ pc[p] = "del_except"
    /\ SvcFinish(p, "delete_document", del[p].t, EExc)
    /\ NoFault
    /\ UNCHANGED <<fsVars, dbVars, callVars, svcVars, ov, added, sent>>

\* ------------------------------------------------------------ QueryService
DefaultK == 4
Blank == <<"", 0>>

\* api_routes.py, the except blocks of the query route: the HTTP status is
\* chosen by the class of the exception and by words of its message
RouteResponse(kind, msg) ==
    IF kind = OK THEN 200
    ELSE IF kind = VErr THEN (IF "not found" \in msg THEN 404 ELSE 400)
    ELSE IF "gemini" \in msg \/ "api" \in msg THEN 503
    ELSE 500

\* the words the route can find in the message of an exception raised by
\* the vector store
StoreMsg(kind) == IF kind = FNF THEN {"not found"} ELSE {}

\* a request of the query service or delete_chatbot returns (kind = OK) or
\* raises; f is its frame at that point
QFinish(p, kind, f) ==
    LET site == Head(stack[p]) IN
    /\ stack' = [stack EXCEPT ![p] = Tail(@)]
    /\ pc' = [pc EXCEPT ![p] = After(site, kind)]
    /\ exc' = [exc EXCEPT ![p] = kind]
    /\ qry' = [qry EXCEPT ![p] =
                 IF site = "top"
                 THEN [f EXCEPT !.kind = kind,
                                !.http = IF f.op = "query"
                                         THEN RouteResponse(kind, f.msg) ELSE 0]
                 ELSE f]
    /\ UNCHANGED ret

\* a step inside a request of the query service; f is the frame after it
QStep(p, label, kind, f) ==
    /\ pc' = [pc EXCEPT ![p] = label]
    /\ exc' = [exc EXCEPT ![p] = kind]
    /\ qry' = [qry EXCEPT ![p] = f]
    /\ UNCHANGED <<stack, ret>>

QStart(p, op, t, question, history, k, label) ==
    /\ Idle(p)
    /\ SvcEnter(p, "top", label)
    /\ qry' = [qry EXCEPT ![p] = [NoQry EXCEPT !.op = op, !.t = t,
                                               !.question = question, !.k = k,
                                               !.history = history]]
    /\ gen' = [gen EXCEPT ![p] = NoGen]
    /\ del' = [del EXCEPT ![p] = NoDel]
    /\ UNCHANGED <<fsVars, dbVars, arg, lidx, lmeta, last, ov, added, sent, budget, dbBudget, cap, dep>>

\* query, called by the route with the default k
StartQuery(p, t, question, history) ==
    QStart(p, "query", t, question, history, DefaultK, "qry_check")

\* retrieve_context, called on its own
StartRetrieve(p, t, question, k) ==
    QStart(p, "retrieve_context", t, question, <<>>, k, "ret_check")

\* lines 309-313: a blank question is a ValueError
QryCheck(p) ==
    /\ pc[p] = "qry_check"
    /\ IF qry[p].question = Blank
       THEN QFinish(p, VErr, qry[p])
       ELSE QStep(p, "qry_select", "none", qry[p])
    /\ NoFault
    /\ UNCHANGED <<fsVars, dbVars, callVars, gen, del, last, ov, added, sent>>

\* a faulty variant of QrySelect: the status of the chatbot is not looked at
QrySelectAnyStatus(p) ==
    /\ pc[p] = "qry_select"
    /\ LET t == qry[p].t IN
       \/ /\ NoFault
          /\ IF cbStatus[t] = "none"
             THEN QFinish(p, VErr, [qry[p] EXCEPT !.msg = {"not found"}])
             ELSE SvcEnter(p, "qry_retrieve", "ret_check") /\ UNCHANGED qry
       \/ /\ DbFault
          /\ QStep(p, "qry_except", EExc, qry[p])
    /\ UNCHANGED <<fsVars, dbVars, arg, lidx, lmeta, gen, del, last, ov, added, sent>>

\* lines 315-342: the chatbot row is read; a missing row and a status other
\* than ready are ValueErrors; else retrieve_context is called
QrySelect(p) ==
    /\ pc[p] = "qry_select"
    /\ LET t == qry[p].t IN
       \/ /\ NoFault
          /\ IF cbStatus[t] = "none"
             THEN QFinish(p, VErr, [qry[p] EXCEPT !.msg = {"not found"}])
             ELSE IF cbStatus[t] # "ready"
             THEN QFinish(p, VErr, qry[p])
             ELSE SvcEnter(p, "qry_retrieve", "ret_check") /\ UNCHANGED qry
       \/ /\ DbFault
          /\ QStep(p, "qry_except", EExc, qry[p])
    /\ UNCHANGED <<fsVars, dbVars, arg, lidx, lmeta, gen, del, last, ov, added, sent>>

\* lines 138-142: a blank question is a ValueError
RetCheck(p) ==
    /\ pc[p] = "ret_check"
    /\ IF qry[p].question = Blank
       THEN QFinish(p, VErr, qry[p])
       ELSE QStep(p, "ret_encode", "none", qry[p])
    /\ NoFault
    /\ UNCHANGED <<fsVars, dbVars, callVars, gen, del, last, ov, added, sent>>

\* a faulty variant of RetEncode: similarity_search is called with the
\* default k, whatever k was given
RetEncodeDefaultK(p) ==
    /\ pc[p] = "ret_encode"
    /\ LET f == [qry[p] EXCEPT !.encodes = @ + 1] IN
       \/ /\ NoFault
          /\ SvcEnter(p, "ret_search", "search_load")
          /\ qry' = [qry EXCEPT ![p] = f]
          /\ arg' = [arg EXCEPT ![p] = [NoArg EXCEPT !.t = f.t,
                                                     !.q = Embed(f.question),
                                                     !.k = DefaultK]]
       \/ /\ Fault
          /\ \E words \in {{"embedding"}, {"embedding", "api"}} :
                QStep(p, "ret_except", EExc, [f EXCEPT !.msg = words])
          /\ UNCHANGED <<arg, ret>>
    /\ UNCHANGED <<fsVars, dbVars, lidx, lmeta, gen, del, last, ov, added, sent>>

\* lines 144-151: the question is embedded by one call of the provider and
\* similarity_search is called with the embedding and k; a failure of the
\* provider is raised as "Embedding generation failed: " followed by the
\* message of the library, which may or may not hold the letters "api"
RetEncode(p) ==
    /\ pc[p] = "ret_encode"
    /\ LET f == [qry[p] EXCEPT !.encodes = @ + 1] IN
       \/ /\ NoFault
          /\ SvcEnter(p, "ret_search", "search_load")
          /\ qry' = [qry EXCEPT ![p] = f]
          /\ arg' = [arg EXCEPT ![p] = [NoArg EXCEPT !.t = f.t,
                                                     !.q = Embed(f.question),
                                                     !.k = f.k]]
       \/ /\ Fault
          /\ \E words \in {{"embedding"}, {"embedding", "api"}} :
                QStep(p, "ret_except", EExc, [f EXCEPT !.msg = words])
          /\ UNCHANGED <<arg, ret>>
    /\ UNCHANGED <<fsVars, dbVars, lidx, lmeta, gen, del, last, ov, added, sent>>

\* lines 153-159: the results of similarity_search are returned as they are
RetReturn(p) ==
    /\ pc[p] = "ret_return"
    /\ QFinish(p, OK, [qry[p] EXCEPT !.out = ret[p]])
    /\ NoFault
    /\ UNCHANGED <<fsVars, dbVars, callVars, gen, del, last, ov, added, sent>>

\* lines 161-167: ValueError and FileNotFoundError are raised again, any
\* other exception is raised as Exception with its message
RetExcept(p) ==
    /\ pc[p] = "ret_except"
    /\ LET words == qry[p].msg \cup StoreMsg(exc[p]) IN
       QFinish(p, IF exc[p] \in {VErr, FNF} THEN exc[p] ELSE EExc,
               [qry[p] EXCEPT !.msg = words])
    /\ NoFault
    /\ UNCHANGED <<fsVars, dbVars, callVars, gen, del, last, ov, added, sent>>

\* the sources of lines 350-358: filename, chunk position and score of each
\* context document
\* generate_response, lines 207-246: the prompt is a list of parts joined by
\* line breaks; a part is written here as its label, its number, its name
\* and its text
Part(tag, n, name, text) == [tag |-> tag, n |-> n, name |-> name, text |-> text]

\* lines 207-215: one block "[Document i - filename]" with the chunk's text
\* for each retrieved chunk, numbered from 1 in the order of the context
ContextParts(context) ==
    [i \in 1..Len(context) |->
       Part("Document", i, context[i].filename, context[i].text)]

\* lines 217-228: a turn of role "user" is a "User:" line, a turn of role
\* "assistant" an "Assistant:" line, a turn of any other role is left out
RECURSIVE HistoryParts(_)
HistoryParts(history) ==
    IF history = <<>> THEN <<>>
    ELSE LET msg == Head(history)
             rest == HistoryParts(Tail(history))
         IN IF msg.role = "user"
            THEN <<Part("User:", 0, "", msg.content)>> \o rest
            ELSE IF msg.role = "assistant"
                 THEN <<Part("Assistant:", 0, "", msg.content)>> \o rest
                 ELSE rest

\* a faulty variant of FullPrompt: the conversation comes before the
\* document blocks
FullPromptHistoryFirst(t, question, context, history) ==
    <<Part("system_prompt", 0, t, Blank)>>
    \o (IF HistoryParts(history) # <<>>
        THEN <<Part("Conversation history:", 0, "", Blank)>> \o HistoryParts(history)
        ELSE <<>>)
    \o (IF context # <<>>
        THEN <<Part("Relevant information from documents:", 0, "", Blank)>>
             \o ContextParts(context)
        ELSE <<>>)
    \o <<Part("User question:", 0, "", question),
         Part("Please provide a helpful response", 0, "", Blank)>>

\* lines 230-246: the system prompt of the chatbot, the document blocks
\* under their heading when there is one, the conversation under its heading
\* when a line was rendered, the question and the closing request
FullPrompt(t, question, context, history) ==
    <<Part("system_prompt", 0, t, Blank)>>
    \o (IF context # <<>>
        THEN <<Part("Relevant information from documents:", 0, "", Blank)>>
             \o ContextParts(context)
        ELSE <<>>)
    \o (IF HistoryParts(history) # <<>>
        THEN <<Part("Conversation history:", 0, "", Blank)>> \o HistoryParts(history)
        ELSE <<>>)
    \o <<Part("User question:", 0, "", question),
         Part("Please provide a helpful response", 0, "", Blank)>>

Sources(context) ==
    [i \in 1..Len(context) |-> [filename |-> context[i].filename,
                                chunk_index |-> context[i].chunk_index,
                                score |-> context[i].score]]

\* a faulty variant of QryGenerate: a failed call of the generative model is
\* tried again
QryGenerateRetries(p) ==
    /\ pc[p] = "qry_generate"
    /\ LET f == [qry[p] EXCEPT !.generates = @ + 1,
                               !.prompt = FullPrompt(qry[p].t, qry[p].question,
                                                     ret[p], qry[p].history)] IN
       \/ /\ NoFault
          /\ QFinish(p, OK, [f EXCEPT !.out = Sources(ret[p])])
       \/ /\ Fault
          /\ QStep(p, "qry_generate", "none", f)
    /\ UNCHANGED <<fsVars, dbVars, callVars, gen, del, last, ov, added, sent>>

\* lines 345-367 and generate_response, lines 197-275: one call of the
\* generative model; its failure is raised as Exception with a message that
\* names the Gemini API
QryGenerate(p) ==
    /\ pc[p] = "qry_generate"
    /\ LET f == [qry[p] EXCEPT !.generates = @ + 1,
                               !.prompt = FullPrompt(qry[p].t, qry[p].question,
                                                     ret[p], qry[p].history)] IN
       \/ /\ NoFault
          /\ QFinish(p, OK, [f EXCEPT !.out = Sources(ret[p])])
       \/ /\ Fault
          /\ QStep(p, "qry_except", EExc, [f EXCEPT !.msg = {"gemini", "api"}])
    /\ UNCHANGED <<fsVars, dbVars, callVars, gen, del, last, ov, added, sent>>

\* lines 369-375: a ValueError is raised again, any other exception is
\* raised as Exception with its message
QryExcept(p) ==
    /\ pc[p] = "qry_except"
    /\ QFinish(p, IF exc[p] = VErr THEN VErr ELSE EExc, qry[p])
    /\ NoFault
    /\ UNCHANGED <<fsVars, dbVars, callVars, gen, del, last, ov, added, sent>>

\* ---------------------------------------------- ChatbotService.delete_chatbot
StartDeleteChatbot(p, t) ==
    QStart(p, "delete_chatbot", t, Blank, <<>>, 0, "dc_get")

\* lines 360-376: the chatbot row and the file paths of its documents are
\* read; a missing row is an Exception; then delete_store is called
DcGet(p) ==
    /\ pc[p] = "dc_get"
    /\ LET t == qry[p].t IN
       \/ /\ NoFault
          /\ IF cbStatus[t] = "none"
             THEN /\ QFinish(p, EExc, [qry[p] EXCEPT !.msg = {"not found"}])
                  /\ UNCHANGED <<arg, ret>>
             ELSE /\ SvcEnter(p, "dc_store", "delete_check")
                  /\ arg' = [arg EXCEPT ![p] = [NoArg EXCEPT !.t = t]]
                  /\ UNCHANGED qry
       \/ /\ DbFault
          /\ QFinish(p, EExc, qry[p])
          /\ UNCHANGED <<arg, ret>>
    /\ UNCHANGED <<fsVars, dbVars, lidx, lmeta, gen, del, last, ov, added, sent>>

\* a faulty variant of DcFiles: a FileNotFoundError of delete_store is not
\* caught and ends delete_chatbot
DcFilesNotFoundFatal(p) ==
    /\ pc[p] = "dc_files"
    /\ IF exc[p] = FNF
       THEN /\ QFinish(p, EExc, qry[p])
            /\ NoFault
            /\ UNCHANGED upfile
       ELSE /\ \/ /\ NoFault
                  /\ upfile' = [d \in DocIds |->
                                  IF docs[d].chatbot_id = qry[p].t THEN NoFile
                                  ELSE upfile[d]]
               \/ /\ \E d \in DocIds : docs[d].chatbot_id = qry[p].t /\ upfile[d].exists
                  /\ Fault
                  /\ UNCHANGED upfile
            /\ QStep(p, "dc_row", "none", qry[p])
    /\ UNCHANGED <<fsVars, cbStatus, docs, callVars, gen, del, last, ov, added, sent>>

\* lines 378-412: whatever delete_store raised was logged; the uploaded
\* files are removed, a failure is only logged
DcFiles(p) ==
    /\ pc[p] = "dc_files"
    /\ \/ /\ NoFault
          /\ upfile' = [d \in DocIds |->
                          IF docs[d].chatbot_id = qry[p].t THEN NoFile
                          ELSE upfile[d]]
       \/ /\ \E d \in DocIds : docs[d].chatbot_id = qry[p].t /\ upfile[d].exists
          /\ Fault
          /\ UNCHANGED upfile
    /\ QStep(p, "dc_row", "none", qry[p])
    /\ UNCHANGED <<fsVars, cbStatus, docs, callVars, gen, del, last, ov, added, sent>>

\* lines 414-426: the chatbot row is deleted, and with it (ON DELETE
\* CASCADE, database.py) the rows of its documents
DcRow(p) ==
    /\ pc[p] = "dc_row"
    /\ LET t == qry[p].t IN
       \/ /\ NoFault
          /\ cbStatus' = [cbStatus EXCEPT ![t] = "none"]
          /\ docs' = [d \in DocIds |->
                        IF docs[d].chatbot_id = t THEN NoRow ELSE docs[d]]
          /\ QFinish(p, OK, qry[p])
       \/ /\ DbFault
          /\ QFinish(p, EExc, qry[p])
          /\ UNCHANGED <<cbStatus, docs>>
    /\ UNCHANGED <<fsVars, upfile, callVars, gen, del, last, ov, added, sent>>

\* -------------------------------- the document service, one request at a time
SvcProc == "p1"
SvcTenants == {"t1"}

Init == InitCommon /\ budget = MaxFaults /\ dbBudget = 0 /\ cap = MaxVecs

SvcCall(p) ==
    \/ \E t \in SvcTenants, d \in DocIds, c \in -1..MaxChunks : Upload(p, t, d, c)
    \/ \E t \in SvcTenants : StartGen(p, t)
    \/ \E t \in SvcTenants, d \in DocIds : StartDeleteDocument(p, t, d)

GenStep(p) ==
    \/ GenSelect(p) \/ GenMarkProcessing(p) \/ GenDocProcessing(p)
    \/ GenDocExtract(p) \/ GenDocBlank(p) \/ GenDocCompleted(p)
    \/ GenDocExcept(p) \/ GenEncode(p) \/ GenLoad(p) \/ GenAdd(p)
    \/ GenReady(p) \/ GenExcept(p)

DelStep(p) ==
    \/ DelSelect(p) \/ DelFile(p) \/ DelRow(p) \/ DelCount(p) \/ DelCreating(p)
    \/ DelReset(p) \/ DelRegen(p) \/ DelReturn(p) \/ DelExcept(p)

CalledStoreStep(p) ==
    \/ CreateCheck(p) \/ CreateMkdir(p) \/ CreateWriteIndex(p)
    \/ CreateWriteMeta(p) \/ CreateCleanup(p)
    \/ AddLoad(p) \/ AddWriteIndex(p) \/ AddReadMeta(p) \/ AddWriteMeta(p)
    \/ DeleteCheck(p) \/ DeleteRmtree(p)

Next == SvcCall(SvcProc) \/ GenStep(SvcProc) \/ DelStep(SvcProc)
           \/ CalledStoreStep(SvcProc)

Spec == Init /\ [][Next]_vars

\* ------------------- the document service when disk and provider never fail
InitReliable == InitCommon /\ budget = 0 /\ dbBudget = 0 /\ cap = MaxVecs

\* the except block of create_store is never entered
ReliableStoreStep(p) ==
    \/ CreateCheck(p) \/ CreateMkdir(p) \/ CreateWriteIndex(p)
    \/ CreateWriteMeta(p)
    \/ AddLoad(p) \/ AddWriteIndex(p) \/ AddReadMeta(p) \/ AddWriteMeta(p)
    \/ DeleteCheck(p) \/ DeleteRmtree(p)

NextReliable == SvcCall(SvcProc) \/ GenStep(SvcProc) \/ DelStep(SvcProc)
                   \/ ReliableStoreStep(SvcProc)

SpecReliable == InitReliable /\ [][NextReliable]_vars

\* ------------------------------------- the store under concurrent requests
\* two request threads call the store for one chatbot; no fault is injected
StoreTenant == "t1"

InitStore == InitCommon /\ budget = 0 /\ dbBudget = 0 /\ cap = MaxStoreVecs

StoreStep(p) ==
    \/ CreateCheck(p) \/ CreateMkdir(p) \/ CreateWriteIndex(p)
    \/ CreateWriteMeta(p) \/ CreateCleanup(p)
    \/ LoadStore(p)
    \/ AddLoad(p) \/ AddWriteIndex(p) \/ AddReadMeta(p) \/ AddWriteMeta(p)
    \/ SearchLoad(p) \/ SearchReadMeta(p)
    \/ DeleteCheck(p) \/ DeleteRmtree(p)

StoreCall(p) ==
    \/ StartCreate(p, StoreTenant, Dim)
    \/ StartLoad(p, StoreTenant)
    \/ \E n \in 1..MaxBatch : StartAdd(p, StoreTenant, n)
    \/ \E q \in QueryVecs, k \in 1..MaxK : StartSearch(p, StoreTenant, q, k)
    \/ StartDelete(p, StoreTenant)

NextStore == \E p \in Procs : StoreCall(p) \/ StoreStep(p)

SpecStore == InitStore /\ [][NextStore]_vars

\* --------------------------------- the store called by one request at a time
\* one thread calls the store for one chatbot with well-formed and malformed
\* arguments; no fault is injected
SeqBatch == 2      \* largest batch passed to add_documents
SeqVecs  == 3      \* cap on the vectors of one index
SeqK     == 3      \* largest k passed to similarity_search

SeqProc   == "p1"
SeqTenant == "t1"

\* the unit vectors of width w
UnitVecs(w) == {[j \in 1..w |-> IF j = u THEN 1 ELSE 0] : u \in 1..w}

\* the metadata dictionaries a caller passes: the keys DocumentService
\* passes, alone or together with the keys "id" and "text"
MetaKinds == {"plain", "keyed"}

SeqMeta(kind, i, n) ==
    LET plain == [document_id |-> "doc", filename |-> "doc.txt",
                  chunk_index |-> i - 1, total_chunks |-> n]
    IN IF kind = "plain" THEN plain
       ELSE plain @@ [id |-> 7, text |-> <<"meta", i>>]

SeqTexts(n) == [i \in 1..n |-> <<"chunk", i>>]
SeqMetas(kind, n) == [i \in 1..n |-> SeqMeta(kind, i, n)]

\* batches that pass the checks of add_documents on a store of width Dim
GoodBatches ==
    UNION {{[texts |-> SeqTexts(n), embs |-> e, metas |-> SeqMetas(kind, n)]
              : e \in [1..n -> UnitVecs(Dim)], kind \in MetaKinds}
           : n \in 1..SeqBatch}

\* batches that fail one of them: no texts, fewer or more embeddings than
\* texts, fewer metadata entries than texts, vectors of another width
BadBatches ==
    LET u == CHOOSE v \in UnitVecs(Dim) : TRUE
        w == CHOOSE v \in UnitVecs(Dim + 1) : TRUE
    IN {[texts |-> <<>>, embs |-> <<>>, metas |-> <<>>],
        [texts |-> SeqTexts(1), embs |-> <<>>, metas |-> SeqMetas("plain", 1)],
        [texts |-> SeqTexts(1), embs |-> <<u, u>>, metas |-> SeqMetas("plain", 1)],
        [texts |-> SeqTexts(1), embs |-> <<u>>, metas |-> <<>>],
        [texts |-> SeqTexts(1), embs |-> <<w>>, metas |-> SeqMetas("plain", 1)]}

\* query vectors of the store's width (the unit vectors and the zero vector)
\* and one of another width
SeqQueries == UnitVecs(Dim) \cup {[j \in 1..Dim |-> 0], [j \in 1..(Dim + 1) |-> 0]}

StartAddBatch(p, t, b) ==
    /\ ntotal(idx[t]) + Len(b.texts) <= cap
    /\ Len(meta[t].documents) + Len(b.texts) <= cap
    /\ Enter(p, [NoArg EXCEPT !.t = t, !.texts = b.texts, !.embs = b.embs,
                              !.metas = b.metas],
             "add_load")
    /\ ov' = [ov EXCEPT ![p] = "none"]

InitSeq == InitCommon /\ budget = 0 /\ dbBudget = 0 /\ cap = SeqVecs

SeqStep(p) ==
    \/ CreateCheck(p) \/ CreateMkdir(p) \/ CreateWriteIndex(p)
    \/ CreateWriteMeta(p)
    \/ LoadStore(p)
    \/ AddLoad(p) \/ AddWriteIndex(p) \/ AddReadMeta(p) \/ AddWriteMeta(p)
    \/ SearchLoad(p) \/ SearchReadMeta(p)
    \/ DeleteCheck(p) \/ DeleteRmtree(p)

SeqCall(p) ==
    \/ \E dimension \in {-1, 0, Dim} : StartCreate(p, SeqTenant, dimension)
    \/ StartLoad(p, SeqTenant)
    \/ \E b \in GoodBatches \cup BadBatches : StartAddBatch(p, SeqTenant, b)
    \/ \E q \in SeqQueries, k \in 0..SeqK : StartSearch(p, SeqTenant, q, k)
    \/ StartDelete(p, SeqTenant)

NextSeq == SeqCall(SeqProc) \/ SeqStep(SeqProc)

SpecSeq == InitSeq /\ [][NextSeq]_vars

\* ------------------------------------------------------------ properties
\* the index and the sidecar of chatbot t hold the same number of entries
CountsAgree(t) == ntotal(idx[t]) = Len(meta[t].documents)

\* the store of chatbot t is inconsistent: one of the two files is missing,
\* or the two counts disagree
Inconsistent(t) ==
    /\ dir[t]
    /\ \/ idx[t].exists # meta[t].exists
       \/ ~CountsAgree(t)

\* no other thread is inside a call
Quiet(p) == \A r \in Procs \ {p} : Idle(r)

\* the store a run of generate_embeddings started from was absent or
\* consistent
StartedConsistent(p) ==
    LET b == gen[p].before
    IN /\ b.idx.exists = b.meta.exists
       /\ ntotal(b.idx) = Len(b.meta.documents)

\* C1: whenever a call of add_documents returns or raises, the index and the
\* sidecar of the store hold the same number of entries (the call was made
\* by a run that found the store absent or consistent).
C1_AddLeavesCountsEqual ==
    [][\A p \in Procs :
          (/\ pc[p] \in AddLabels
           /\ pc'[p] \notin AddLabels
           /\ StartedConsistent(p))
          => ntotal(idx'[arg[p].t]) = Len(meta'[arg[p].t].documents)]_vars

\* C2: load_store, similarity_search and add_documents, called on an
\* inconsistent store while no other call is in flight, end with an error:
\* load_store does not return the index, similarity_search returns no
\* results, add_documents does not get past its load.
C2_InconsistentStoreRejected ==
    [][\A p \in Procs :
          (/\ pc[p] \in {"load", "add_load", "search_read_meta"}
           /\ Quiet(p)
           /\ Inconsistent(arg[p].t)
           /\ pc'[p] # pc[p])
          => (pc'[p] = "idle" /\ exc'[p] \in {VErr, FNF, EExc})]_vars

\* C3: when two calls of add_documents for one chatbot overlapped and both
\* returned successfully, the index and the sidecar hold every chunk passed
\* to the successful calls since the store was created.
C3_OverlappingAddsBothKept ==
    (\A p \in Procs : Idle(p) /\ ov[p] = "add" /\ exc[p] = OK)
    => (/\ ntotal(idx[StoreTenant]) = added[StoreTenant]
        /\ Len(meta[StoreTenant].documents) = added[StoreTenant])

\* C4: a similarity_search that ran while an add_documents for the same
\* chatbot was in flight, and returned, returns exactly min(k, count)
\* results, count being the number of vectors of the index it read.
C4_SearchDuringAddComplete ==
    [][\A p \in Procs :
          (/\ pc[p] = "search_read_meta"
           /\ ov[p] = "search"
           /\ pc'[p] = "idle"
           /\ exc'[p] = OK)
          => Len(ret'[p]) = Min(arg[p].k, ntotal(lidx[p]))]_vars

\* C5: a run of generate_embeddings that starts right after a successful run
\* for the same chatbot, with no upload or removal in between, leaves the
\* chatbot status, the document rows and the store as they were.
C5_SecondRunChangesNothing ==
    \A p \in Procs :
       (/\ Idle(p)
        /\ gen[p].before.again
        /\ last.op = "generate_embeddings")
       => (/\ cbStatus[gen[p].t] = gen[p].before.status
           /\ Rows = gen[p].before.docs
           /\ idx[gen[p].t] = gen[p].before.idx
           /\ meta[gen[p].t] = gen[p].before.meta
           /\ dir[gen[p].t] = gen[p].before.dir)

\* the status changes of one document row that upload and a run make
OneWay == {<<"none", "uploaded">>, <<"uploaded", "processing">>,
           <<"processing", "completed">>, <<"processing", "error">>}

\* C6, as stated: a document's status moves only uploaded -> processing ->
\* completed or error (a row may appear and be removed); completed and
\* error are final and the document is not processed a second time.
C6_StatusOneWay ==
    [][\A d \in DocIds :
          docs'[d].status # docs[d].status
          => \/ <<docs[d].status, docs'[d].status>> \in OneWay
             \/ docs'[d].status = "none"]_vars

\* C6: a document's status moves only uploaded -> processing -> completed
\* or error, except that delete_document, after removing another document
\* of the chatbot, sets every remaining document of the chatbot back to
\* uploaded, whatever its status, to be processed again.
C6_StatusOneWayUntilRemoval ==
    [][\A d \in DocIds :
          docs'[d].status # docs[d].status
          => \/ <<docs[d].status, docs'[d].status>> \in OneWay
             \/ docs'[d].status = "none"
             \/ \E p \in Procs :
                   /\ pc[p] = "del_reset"
                   /\ docs[d].chatbot_id = del[p].t
                   /\ d # del[p].d
                   /\ docs'[d].status = "uploaded"]_vars

\* a completed document was set back to uploaded by a removal and has been
\* processed to completed a second time
C6_Witness ==
    /\ Idle(SvcProc)
    /\ last = [op |-> "delete_document", t |-> del[SvcProc].t, kind |-> OK]
    /\ \E i \in 1..Len(del[SvcProc].reset) :
          /\ del[SvcProc].reset[i].status = "completed"
          /\ Rows[i].status = "completed"

\* a run of generate_embeddings of thread p has ended: control is back in
\* its caller, and exc[p] is its outcome
RunEnded(p) == gen[p].t # "" /\ pc[p] \in {"idle", "del_return", "del_except"}

\* the last records of the sidecar of t carry `chunks`, and the last
\* vectors of the index are their embeddings
StoredLast(t, chunks) ==
    LET n == Len(chunks)
        m == Len(meta[t].documents)
        v == ntotal(idx[t])
    IN /\ IndexExists(t) /\ MetaExists(t)
       /\ m >= n /\ v >= n
       /\ \A i \in 1..n : /\ meta[t].documents[m - n + i].text = chunks[i]
                          /\ idx[t].vecs[v - n + i] = Embed(chunks[i])

RECURSIVE UsableFrom(_, _)
UsableFrom(t, i) ==
    IF i > Len(DocOrder) THEN <<>>
    ELSE LET d == DocOrder[i]
         IN (IF docs[d].chatbot_id = t /\ upfile[d].chunks > 0
             THEN ChunksOf(d, upfile[d].chunks) ELSE <<>>)
            \o UsableFrom(t, i + 1)

UsableChunks(t) == UsableFrom(t, 1)

TextsOf(sm) == [i \in 1..Len(sm.documents) |-> sm.documents[i].text]

\* C8: after delete_document(t, d) has returned successfully no record of
\* the sidecar of t carries document_id d; when no document of t remains
\* there is no store and the status is creating, otherwise the store holds
\* exactly the chunks of the remaining documents with usable text.
C8_DeleteDocumentRebuilds ==
    \A p \in Procs :
       (/\ Idle(p)
        /\ del[p].t # ""
        /\ last = [op |-> "delete_document", t |-> del[p].t, kind |-> OK])
       => LET t == del[p].t
          IN /\ \A i \in 1..Len(meta[t].documents) :
                   meta[t].documents[i].document_id # del[p].d
             /\ IF RowsOf(t) = <<>>
                THEN ~dir[t] /\ cbStatus[t] = "creating"
                ELSE /\ IndexExists(t) /\ MetaExists(t)
                     /\ TextsOf(meta[t]) = UsableChunks(t)
                     /\ idx[t].vecs = EncodeAll(UsableChunks(t))

\* a removal has returned and left a rebuilt store with chunks in it
C8_Witness ==
    /\ Idle(SvcProc)
    /\ del[SvcProc].t # ""
    /\ last = [op |-> "delete_document", t |-> del[SvcProc].t, kind |-> OK]
    /\ RowsOf(del[SvcProc].t) # <<>>
    /\ meta[del[SvcProc].t].documents # <<>>

\* the chunks of the usable documents a run selected, in the run's order
RECURSIVE RunChunksFrom(_, _)
RunChunksFrom(ds, i) ==
    IF i > Len(ds) THEN <<>>
    ELSE (IF upfile[ds[i]].chunks > 0 THEN ChunksOf(ds[i], upfile[ds[i]].chunks)
          ELSE <<>>) \o RunChunksFrom(ds, i + 1)

\* the run of thread p selected a document without usable text and one with
MixedRun(p) ==
    /\ RunEnded(p)
    /\ \E i \in 1..Len(gen[p].documents) : upfile[gen[p].documents[i]].chunks <= 0
    /\ \E i \in 1..Len(gen[p].documents) : upfile[gen[p].documents[i]].chunks > 0

\* C9: a run over documents of which one has no usable text and one has,
\* returns successfully: the chunks of the usable documents are appended to
\* the store, the documents without usable text are marked error and the
\* usable ones completed, and the chatbot is ready.
C9_PartialFailureCompletes ==
    \A p \in Procs :
       MixedRun(p)
       => LET t == gen[p].t
              ds == gen[p].documents
          IN /\ exc[p] = OK
             /\ cbStatus[t] = "ready"
             /\ \A i \in 1..Len(ds) :
                   docs[ds[i]].status = IF upfile[ds[i]].chunks > 0
                                        THEN "completed" ELSE "error"
             /\ StoredLast(t, RunChunksFrom(ds, 1))
             /\ Len(meta[t].documents) =
                   Len(gen[p].before.meta.documents) + Len(RunChunksFrom(ds, 1))

\* a run over a blank and a usable document has ended
C9_Witness == MixedRun(SvcProc) /\ cbStatus[gen[SvcProc].t] = "ready"

\* the run of thread p went through all its documents and got no chunk
ZeroChunkRun(p) ==
    /\ RunEnded(p)
    /\ gen[p].documents # <<>>
    /\ gen[p].i > Len(gen[p].documents)
    /\ gen[p].all_chunks = <<>>

ReservedKeys == {"id", "text", "score", "rank"}

\* the metadata of chunk c carries none of them
PlainChunk(c) == DOMAIN c.meta \cap ReservedKeys = {}

\* every chunk added to the store of chatbot t carried plain metadata
PlainStore(t) == \A n \in 1..Len(sent[t]) : PlainChunk(sent[t][n])

\* record r carries the text and the metadata of chunk c
IsChunk(r, c) ==
    /\ r.text = c.text
    /\ \A key \in DOMAIN c.meta : r[key] = c.meta[key]

\* thread p returns from similarity_search in this step
SearchReturns(p) == pc[p] = "search_read_meta" /\ pc'[p] = "idle"

\* the store of chatbot t was created and one batch was added to it since:
\* the chunks passed are the chunks 0 .. n-1 of one batch of n
OneBatch(t) ==
    /\ Len(sent[t]) >= 1
    /\ PlainStore(t)
    /\ \A i \in 1..Len(sent[t]) :
          /\ sent[t][i].meta.chunk_index = i - 1
          /\ sent[t][i].meta.total_chunks = Len(sent[t])

ScoresAscend(results) ==
    \A i \in 1..(Len(results) - 1) : results[i].score <= results[i + 1].score

\* thread p is about to return from a similarity_search with k > 0 and a
\* query of the store's width, on a store that holds at least one vector
SearchOnFilledStore(p) ==
    /\ SearchReturns(p)
    /\ arg[p].k > 0
    /\ IndexExists(arg[p].t)
    /\ ntotal(idx[arg[p].t]) >= 1
    /\ Len(arg[p].q) = idx[arg[p].t].d

\* C12: on a store holding c >= 1 vectors, similarity_search with k > 0
\* returns exactly min(k, c) results, and their scores are non-decreasing
\* from the first to the last.
C12_MinKResultsAscending ==
    [][\A p \in Procs :
          SearchOnFilledStore(p)
          => /\ exc'[p] = OK
             /\ Len(ret'[p]) = Min(arg[p].k, ntotal(idx[arg[p].t]))
             /\ ScoresAscend(ret'[p])]_vars

\* a search returned both vectors of a two-vector store, the nearer first
C12_Witness ==
    /\ Idle(SeqProc) /\ exc[SeqProc] = OK
    /\ ntotal(idx[SeqTenant]) = 2
    /\ Len(ret[SeqProc]) = 2
    /\ ret[SeqProc][1].score < ret[SeqProc][2].score

\* result r is the sidecar record at index position pos (zero-based) of
\* chatbot t, annotated with the distance of the vector at that position
\* from query q
ResolvesTo(r, t, q, pos) ==
    LET doc == meta[t].documents[pos + 1] IN
    /\ doc.id = pos
    /\ r.score = SqDist(q, idx[t].vecs[pos + 1])
    /\ \A key \in DOMAIN doc : r[key] = doc[key]

C14_EmptyStoreSearchReturnsNothing ==
    [][\A p \in Procs :
          (/\ SearchReturns(p)
           /\ arg[p].k > 0
           /\ IndexExists(arg[p].t) /\ MetaExists(arg[p].t)
           /\ ntotal(idx[arg[p].t]) = 0)
          => (exc'[p] = OK /\ ret'[p] = <<>>)]_vars

\* a search with a query of another width has loaded the empty index
C14_Witness ==
    /\ pc[SeqProc] = "search_read_meta"
    /\ arg[SeqProc].k > 1
    /\ Len(arg[SeqProc].q) # Dim
    /\ MetaExists(SeqTenant)
    /\ lidx[SeqProc].exists /\ ntotal(lidx[SeqProc]) = 0

\* thread p returns from add_documents without raising in this step
AddReturns(p) == pc[p] = "add_write_meta" /\ pc'[p] = "idle" /\ exc'[p] = OK

\* the index, the sidecar's records and the sidecar's counter of chatbot t
\* all hold the count c
Holds(t, c) ==
    /\ ntotal(idx[t]) = c
    /\ Len(meta[t].documents) = c
    /\ meta[t].total_documents = c

\* C15: a store that a call of add_documents finds with c vectors and c
\* sidecar records holds, when the call returns, c+n vectors and c+n records,
\* and its counter field is c+n, n being the number of chunks passed.
C15_AddGrowsBothByN ==
    /\ [](\A t \in Tenants :
             (IndexExists(t) /\ \A p \in Procs : Idle(p))
             => \E c \in 0..SeqVecs : Holds(t, c))
    /\ [][\A p \in Procs :
             AddReturns(p)
             => LET t == arg[p].t
                    n == Len(arg[p].texts)
                    c == Len(meta[t].documents)
                IN /\ ntotal(idx'[t]) = c + n
                   /\ Len(meta'[t].documents) = c + n
                   /\ meta'[t].total_documents = c + n]_vars

\* a second batch was added to a store that held chunks already
C15_Witness ==
    /\ Idle(SeqProc) /\ exc[SeqProc] = OK
    /\ Len(sent[SeqTenant]) = 3
    /\ sent[SeqTenant][2].meta.chunk_index = 0
    /\ sent[SeqTenant][2].meta.total_chunks = 2
    /\ Holds(SeqTenant, 3)

\* the texts of a sequence of chunks, in order
TextsPassed(chunks) == [i \in 1..Len(chunks) |-> chunks[i].text]

\* C16: after create_store and any successful add_documents calls, whatever
\* keys the metadata carry, the sidecar record at zero-based position i has
\* identifier i and the text passed for that chunk.
C16_SequentialIdsAnyMetadata ==
    \A t \in Tenants :
       MetaExists(t)
       => LET texts == TextsPassed(sent[t])
              documents == meta[t].documents
          IN /\ Len(documents) = Len(texts)
             /\ \A i \in 1..Len(documents) :
                   /\ documents[i].id = i - 1
                   /\ documents[i].text = texts[i]

\* sequence s is a prefix of sequence r
IsPrefix(s, r) == Len(s) <= Len(r) /\ \A i \in 1..Len(s) : s[i] = r[i]

\* a thread removes the directory of chatbot t in this step of delete_store
StoreDeleted(t) ==
    \E p \in Procs : pc[p] = "delete_rmtree" /\ arg[p].t = t /\ ~dir'[t]

\* C17: the store is append-only: no step of add_documents (nor of any other
\* call but delete_store) changes, reorders or removes a sidecar record or an
\* index vector that existed before the step; the previous records and
\* vectors are a prefix of the new ones.
C17_AppendOnly ==
    [][\A t \in Tenants :
          \/ /\ IsPrefix(meta[t].documents, meta'[t].documents)
             /\ IsPrefix(idx[t].vecs, idx'[t].vecs)
          \/ StoreDeleted(t)]_vars

\* a second add appended a different vector behind the first one
C17_Witness ==
    /\ Idle(SeqProc) /\ exc[SeqProc] = OK
    /\ Len(sent[SeqTenant]) = 2
    /\ sent[SeqTenant][2].meta.chunk_index = 0
    /\ Holds(SeqTenant, 2)
    /\ idx[SeqTenant].vecs[1] = sent[SeqTenant][1].emb
    /\ idx[SeqTenant].vecs[2] # idx[SeqTenant].vecs[1]
    /\ IsChunk(meta[SeqTenant].documents[1], sent[SeqTenant][1])

\* C18: create_store for a chatbot that already has a store raises
\* ValueError at its existence check, and the directory, the index and the
\* sidecar of the store are exactly as before the call.
C18_CreateOnExistingStoreFails ==
    [][\A p \in Procs :
          (/\ pc[p] = "create_check"
           /\ dir[arg[p].t]
           /\ pc'[p] # pc[p])
          => /\ pc'[p] = "idle"
             /\ exc'[p] = VErr
             /\ UNCHANGED fsVars]_vars

\* create_store is called with a valid dimension for a store that holds
\* chunks
C18_Witness ==
    /\ pc[SeqProc] = "create_check"
    /\ arg[SeqProc].dim = Dim
    /\ dir[arg[SeqProc].t]
    /\ Holds(arg[SeqProc].t, 2)

\* the steps of create_store after its checks
CreateLabels == {"create_mkdir", "create_write_index", "create_write_meta",
                 "create_cleanup"}

\* thread p leaves create_store by a raise in this step, and the rmtree of
\* the cleanup, if this step is the cleanup, did not fail itself
CreateRaisesCleaned(p) ==
    /\ pc[p] \in CreateLabels
    /\ pc'[p] \notin CreateLabels
    /\ exc'[p] # OK
    /\ ~(pc[p] = "create_cleanup" /\ budget' # budget)

BadArguments(p) ==
    \/ pc[p] = "create_check" /\ arg[p].dim <= 0
    \/ pc[p] = "add_load" /\ AddInvalid(arg[p])
    \/ pc[p] = "search_load" /\ arg[p].k <= 0

\* ... or a vector whose width is not the dimension stores are created with
BadWidth(p) ==
    \/ pc[p] = "add_load" /\ ~AddInvalid(arg[p]) /\ Width(arg[p].embs) # Dim
    \/ pc[p] = "search_load" /\ arg[p].k > 0 /\ Len(arg[p].q) # Dim

\* the first step of the call raises ValueError and changes no store file
RejectedAtOnce(p) == pc'[p] = "idle" /\ exc'[p] = VErr /\ UNCHANGED fsVars

\* C20 (as stated): every validation failure, a wrong vector or query width
\* included, is raised before a store file is read or written: the call
\* ends in ValueError in its first step, also when the chatbot has no store.
C20_EveryValidationBeforeIO ==
    [][\A p \in Procs :
          ((BadArguments(p) \/ BadWidth(p)) /\ pc'[p] # pc[p])
          => RejectedAtOnce(p)]_vars

\* C20 (amended): a non-positive dimension, an empty or mismatched batch and
\* k <= 0 are raised in the first step, before a store file is read, also
\* when the chatbot has no store. A wrong width is found after load_store:
\* without a store the call raises FileNotFoundError, add_documents on a
\* store raises ValueError before it writes, similarity_search raises
\* ValueError on a store that holds vectors and returns the empty list on
\* an empty one. No store file changes in any of these calls.
C20_ArgumentChecksBeforeIO ==
    [][\A p \in Procs :
          /\ (BadArguments(p) /\ pc'[p] # pc[p]) => RejectedAtOnce(p)
          /\ (BadWidth(p) /\ pc'[p] # pc[p])
             => /\ UNCHANGED fsVars
                /\ IF ~IndexExists(arg[p].t)
                   THEN pc'[p] = "idle" /\ exc'[p] = FNF
                   ELSE IF pc[p] = "add_load"
                   THEN pc'[p] = "idle" /\ exc'[p] = VErr
                   ELSE pc'[p] = "search_read_meta"
          /\ (/\ pc[p] = "search_read_meta"
              /\ Len(arg[p].q) # Dim
              /\ pc'[p] # pc[p])
             => /\ UNCHANGED fsVars
                /\ pc'[p] = "idle"
                /\ IF ntotal(lidx[p]) = 0
                   THEN exc'[p] = OK /\ ret'[p] = <<>>
                   ELSE exc'[p] = VErr]_vars

\* a call raised ValueError for a chatbot that has no store
C20_Witness ==
    /\ Idle(SeqProc)
    /\ exc[SeqProc] = VErr
    /\ ~dir[SeqTenant]

\* chatbot t has no store directory, index file or sidecar file
NoStore(t) == ~dir[t] /\ idx[t] = NoIndex /\ meta[t] = NoMeta

\* C22: when delete_store returns, the directory, the index and the sidecar
\* of the chatbot are gone together; on a chatbot without a store load_store
\* raises FileNotFoundError, create_store with a valid dimension passes its
\* checks and returns, and delete_store raises FileNotFoundError and
\* changes nothing.
C22_DeleteStoreRemovesBoth ==
    /\ [](\A t \in Tenants : ~dir[t] => NoStore(t))
    /\ [][\A p \in Procs :
             LET t == arg[p].t IN
             /\ (pc[p] = "delete_rmtree" /\ pc'[p] = "idle")
                => (exc'[p] = OK /\ ~dir'[t] /\ idx'[t] = NoIndex
                                 /\ meta'[t] = NoMeta)
             /\ (pc[p] = "delete_check" /\ ~dir[t] /\ pc'[p] # pc[p])
                => (pc'[p] = "idle" /\ exc'[p] = FNF /\ UNCHANGED fsVars)
             /\ (pc[p] = "load" /\ ~dir[t] /\ pc'[p] # pc[p])
                => (pc'[p] = "idle" /\ exc'[p] = FNF)
             /\ (pc[p] = "create_check" /\ ~dir[t] /\ arg[p].dim > 0
                    /\ pc'[p] # pc[p])
                => pc'[p] = "create_mkdir"
             /\ (pc[p] \in {"create_mkdir", "create_write_index",
                            "create_write_meta"} /\ pc'[p] = "idle")
                => (exc'[p] = OK /\ dir'[t] /\ idx'[t].exists
                                 /\ meta'[t].exists)]_vars

\* delete_store returned (no other call returns and leaves no store)
C22_Witness ==
    /\ Idle(SeqProc) /\ exc[SeqProc] = OK
    /\ NoStore(SeqTenant)

\* ---------------------------------------------------------------------
\* chunk records of an ingestion run
\* ---------------------------------------------------------------------

\* the add_documents call of a run of thread p returns successfully
RunAddReturns(p) ==
    /\ pc[p] = "add_write_meta" /\ stack[p] # <<>>
    /\ pc'[p] = "gen_ready"

\* the records of sequence s that are tagged with document d, in order
RecordsOf(s, d) == SelectSeq(s, LAMBDA r : r.document_id = d)

\* C30: for every document that an ingestion run splits into n >= 1 chunks,
\* the run stores exactly n records for that document, in the order of the
\* chunks, with chunk positions 0..n-1 and sibling count n, each tagged with
\* the identifier and the filename of the document.
C30_RunStoresChunkRecords ==
    [][\A p \in Procs :
          RunAddReturns(p)
          => LET t == gen[p].t
                 c == Len(meta[t].documents)
                 new == SubSeq(meta'[t].documents, c + 1,
                               Len(meta'[t].documents))
             IN \A j \in 1..Len(gen[p].documents) :
                   LET d == gen[p].documents[j]
                       n == upfile[d].chunks
                       rs == RecordsOf(new, d)
                   IN (upfile[d].exists /\ n >= 1)
                      => /\ Len(rs) = n
                         /\ \A i \in 1..n :
                               /\ rs[i].text = ChunksOf(d, n)[i]
                               /\ rs[i].chunk_index = i - 1
                               /\ rs[i].total_chunks = n
                               /\ rs[i].document_id = d
                               /\ rs[i].filename = docs[d].filename]_vars

\* a run has stored the two chunks of one document
C30_Witness ==
    \E p \in Procs :
       /\ pc[p] = "gen_ready"
       /\ \E j \in 1..Len(gen[p].documents) :
             LET d == gen[p].documents[j]
             IN /\ upfile[d].exists /\ upfile[d].chunks = 2
                /\ Len(RecordsOf(meta[gen[p].t].documents, d)) = 2

\* ---------------------------------------------------------------------
\* the document service with one database fault and one store fault
\* ---------------------------------------------------------------------
InitDbFaults == InitCommon /\ budget = 1 /\ dbBudget = 1 /\ cap = MaxVecs

SpecDbFaults == InitDbFaults /\ [][Next]_vars

\* the except block of a run is left while the write of the error status
\* fails, after the chatbot was marked processing
ErrorWriteFails(p) ==
    /\ pc[p] = "gen_except" /\ gen[p].i >= 1
    /\ dbBudget' # dbBudget

\* C29: when a run fails after the chatbot was marked processing and the
\* write that marks the chatbot error fails too, the run still raises
\* Exception, and the failure it carries is the one the run met first, not
\* the failure of the status write; the status stays as it was.
C29_OriginalFailureSurvivesStatusWrite ==
    [][\A p \in Procs :
          ErrorWriteFails(p)
          => /\ exc'[p] = EExc
             /\ pc'[p] = After(Head(stack[p]), EExc)
             /\ gen'[p].cause = exc[p]
             /\ exc[p] \in {VErr, EExc}
             /\ cbStatus' = cbStatus]_vars

\* a run that found no text in its documents has raised while the write of
\* the error status failed: the chatbot is still processing
C29_Witness ==
    /\ Idle(SvcProc) /\ gen[SvcProc].t # "" /\ gen[SvcProc].i >= 1
    /\ gen[SvcProc].cause = EExc /\ exc[SvcProc] = EExc
    /\ dbBudget = 0
    /\ cbStatus[gen[SvcProc].t] = "processing"

\* ---------------------------------------------------------------------
\* two chatbots served at the same time: thread p1 serves requests for
\* chatbot t1, thread p2 requests for chatbot t2, their steps interleave
\* ---------------------------------------------------------------------
TenantOf(p) == IF p = "p1" THEN "t1" ELSE "t2"

\* the uploads of each thread, as <<document, chunks>>: chatbot t1 is sent
\* d1 with text and d2 blank or unreadable, chatbot t2 is sent d2 with text
\* (an identifier is in use by one chatbot at a time)
TenantUploads(p) ==
    IF p = "p1" THEN {<<"d1", 1>>, <<"d2", 0>>, <<"d2", -1>>}
    ELSE {<<"d2", 1>>}

\* the documents each thread asks to delete: for chatbot t1 also d2, which
\* may belong to chatbot t2 at that time
TenantDeletes(p) == IF p = "p1" THEN {"d1", "d2"} ELSE {"d2"}

InitTenants == InitCommon /\ budget = 0 /\ dbBudget = 0 /\ cap = MaxStoreVecs

TenantCall(p) ==
    LET t == TenantOf(p) IN
    \/ \E u \in TenantUploads(p) : Upload(p, t, u[1], u[2])
    \/ StartGen(p, t)
    \/ \E d \in TenantDeletes(p) : StartDeleteDocument(p, t, d)

TenantStep(p) ==
    \/ GenStep(p) \/ DelStep(p)
    \/ CreateCheck(p) \/ CreateMkdir(p) \/ CreateWriteIndex(p)
    \/ CreateWriteMeta(p)
    \/ AddLoad(p) \/ AddWriteIndex(p) \/ AddReadMeta(p) \/ AddWriteMeta(p)
    \/ DeleteCheck(p) \/ DeleteRmtree(p)

NextTenants == \E p \in Procs : TenantCall(p) \/ TenantStep(p)

SpecTenants == InitTenants /\ [][NextTenants]_vars

\* what belongs to chatbot t: its index, its sidecar, its directory, its
\* status, and the rows and files of its documents
TenantState(t) ==
    <<idx[t], meta[t], dir[t], cbStatus[t],
      [d \in DocIds |-> IF docs[d].chatbot_id = t
                        THEN <<docs[d], upfile[d]>> ELSE <<>>]>>

\* the chatbot that the request of thread p works for
Working(p) ==
    IF del[p].t # "" THEN del[p].t
    ELSE IF gen[p].t # "" THEN gen[p].t
    ELSE arg[p].t

\* thread p takes a step of a request that is under way
Moves(p) == pc[p] # "idle" /\ pc'[p] # pc[p]

\* C23: a step of create_store, add_documents, delete_store, an ingestion
\* run or delete_document for one chatbot, alone or interleaved with the
\* requests of another chatbot, leaves the index, sidecar, document rows and
\* status of every other chatbot unchanged: what belongs to a chatbot
\* changes only by a step of a request for that chatbot, or by an upload to
\* it.
C23_TenantIsolation ==
    [][\A b \in Tenants :
          TenantState(b)' # TenantState(b)
          => \/ \E p \in Procs : Moves(p) /\ Working(p) = b
             \/ \E d \in DocIds : docs[d] = NoRow /\ docs'[d].chatbot_id = b]_vars

\* chatbot t2 is ready with its document stored while chatbot t1, whose
\* store was rebuilt by a delete_document, has just deleted its last document
\* and its store
C23_Witness ==
    /\ cbStatus["t2"] = "ready" /\ ntotal(idx["t2"]) = 1
    /\ docs["d2"].chatbot_id = "t2" /\ docs["d2"].status = "completed"
    /\ Idle("p1") /\ del["p1"].t = "t1" /\ exc["p1"] = OK
    /\ cbStatus["t1"] = "creating" /\ ~dir["t1"]
    /\ pc["p2"] # "idle"

\* ---------------------------------------------------------------------
\* the web application, one request at a time: uploads, ingestion runs,
\* delete_document, queries, retrieve_context and delete_chatbot, with one
\* disk or provider fault and one database fault
\* ---------------------------------------------------------------------
InitQuery == InitCommon /\ budget = 1 /\ dbBudget = 1 /\ cap = MaxVecs

Questions == {Blank, <<"question", 1>>}

\* the conversations handed to query: none, one exchange, and one exchange
\* with a turn of another role between its two turns
Turn(role, content) == [role |-> role, content |-> content]
Histories ==
    {<<>>,
     <<Turn("user", <<"hello", 2>>), Turn("assistant", <<"welcome", 3>>)>>,
     <<Turn("user", <<"hello", 2>>), Turn("system", <<"note", 4>>),
       Turn("assistant", <<"welcome", 3>>)>>}

\* the uploads, as <<document, chunks>>: d1 has text, d2 has text or is blank
QueryUploads == {<<"d1", 1>>, <<"d2", 2>>, <<"d2", 0>>}

QueryCall(p) ==
    \/ \E t \in SvcTenants, u \in QueryUploads : Upload(p, t, u[1], u[2])
    \/ \E t \in SvcTenants : StartGen(p, t)
    \/ \E t \in SvcTenants, d \in DocIds : StartDeleteDocument(p, t, d)
    \/ \E t \in SvcTenants, q \in Questions, h \in Histories :
          StartQuery(p, t, q, h)
    \/ \E t \in SvcTenants, q \in Questions, k \in {0, DefaultK} :
          StartRetrieve(p, t, q, k)
    \/ \E t \in SvcTenants : StartDeleteChatbot(p, t)

QueryStep(p) ==
    \/ QryCheck(p) \/ QrySelect(p) \/ QryGenerate(p) \/ QryExcept(p)
    \/ RetCheck(p) \/ RetEncode(p) \/ RetReturn(p) \/ RetExcept(p)
    \/ SearchLoad(p) \/ SearchReadMeta(p)
    \/ DcGet(p) \/ DcFiles(p) \/ DcRow(p)

NextQuery == QueryCall(SvcProc) \/ QueryStep(SvcProc) \/ GenStep(SvcProc)
                \/ DelStep(SvcProc) \/ CalledStoreStep(SvcProc)

SpecQuery == InitQuery /\ [][NextQuery]_vars

\* ---------------------------------------------------------------------
\* the query service
\* ---------------------------------------------------------------------
NotReady == {"creating", "processing", "error"}

\* no call was made to the embedding provider or to the generative model
NoExternalCall(f) == f.encodes = 0 /\ f.generates = 0

\* C24: a query for a chatbot whose status is creating, processing or error
\* fails, and calls neither the embedding provider nor the generative model.
C24_QueryNeedsReady ==
    /\ [](\A p \in Procs :
             pc[p] \in {"qry_check", "qry_select"} => NoExternalCall(qry[p]))
    /\ [][\A p \in Procs :
             /\ (pc[p] = "qry_select" /\ cbStatus[qry[p].t] \in NotReady
                 /\ pc'[p] # pc[p])
                => /\ NoExternalCall(qry'[p])
                   /\ \/ pc'[p] = "idle" /\ qry'[p].kind = VErr
                      \/ pc'[p] = "qry_except" /\ exc'[p] = EExc
             /\ (pc[p] = "qry_except" /\ pc'[p] # pc[p])
                => /\ pc'[p] = "idle" /\ qry'[p].kind \in {VErr, EExc}
                   /\ qry'[p].encodes = qry[p].encodes
                   /\ qry'[p].generates = qry[p].generates]_vars

\* a query for a chatbot left in processing has been refused
C24_Witness ==
    /\ Idle(SvcProc) /\ qry[SvcProc].op = "query" /\ qry[SvcProc].kind = VErr
    /\ qry[SvcProc].question # Blank
    /\ cbStatus[qry[SvcProc].t] = "processing"
    /\ NoExternalCall(qry[SvcProc])

\* thread p is inside retrieve_context, or inside the similarity_search it
\* called
InRetrieve(p) == stack[p] # <<>> /\ qry[p].op \in {"query", "retrieve_context"}
                 /\ pc[p] \in {"ret_check", "ret_encode", "search_load",
                               "search_read_meta", "ret_return", "ret_except"}

\* retrieve_context of thread p returns or raises on this step
RetrieveEnds(p) ==
    /\ pc[p] \in {"ret_check", "ret_return", "ret_except"}
    /\ Len(stack'[p]) < Len(stack[p])

\* C25: retrieve_context raises ValueError for a blank question without
\* calling the embedding provider or the store; it raises FileNotFoundError
\* when the chatbot has no store (k being positive); otherwise it calls
\* similarity_search with the embedding of the question and the k it was
\* given, and returns what that call returned.
C25_RetrieveContext ==
    /\ [](\A p \in Procs :
             (InRetrieve(p) /\ pc[p] \in {"search_load", "search_read_meta"})
             => /\ qry[p].question # Blank
                /\ arg[p] = [NoArg EXCEPT !.t = qry[p].t,
                                          !.q = Embed(qry[p].question),
                                          !.k = qry[p].k])
    /\ [][\A p \in Procs :
             /\ (pc[p] = "ret_check" /\ qry[p].question = Blank
                 /\ pc'[p] # pc[p])
                => /\ RetrieveEnds(p) /\ exc'[p] = VErr
                   /\ qry'[p].encodes = qry[p].encodes
             /\ (InRetrieve(p) /\ pc[p] = "search_load" /\ arg[p].k > 0
                 /\ ~dir[arg[p].t] /\ pc'[p] # pc[p])
                => pc'[p] = "ret_except" /\ exc'[p] = FNF
             /\ (pc[p] = "ret_except" /\ exc[p] = FNF /\ pc'[p] # pc[p])
                => RetrieveEnds(p) /\ exc'[p] = FNF
             /\ (InRetrieve(p) /\ pc[p] = "search_read_meta"
                 /\ pc'[p] = "ret_return")
                => ret'[p] = IF ntotal(lidx[p]) = 0 THEN <<>>
                             ELSE SearchResults(lidx[p], meta[qry[p].t],
                                                Embed(qry[p].question),
                                                qry[p].k)
             /\ (pc[p] = "ret_return" /\ pc'[p] # pc[p])
                => /\ RetrieveEnds(p) /\ exc'[p] = OK
                   /\ qry'[p].out = ret[p] /\ ret'[p] = ret[p]]_vars

\* retrieve_context, called on its own, has returned the chunk it found
C25_Witness ==
    /\ Idle(SvcProc) /\ qry[SvcProc].op = "retrieve_context"
    /\ qry[SvcProc].kind = OK /\ qry[SvcProc].k = DefaultK
    /\ Len(qry[SvcProc].out) >= 1
    /\ qry[SvcProc].out = ret[SvcProc]

\* a call of the embedding provider or of the generative model fails on
\* this step of thread p
ExternalCallFails(p) ==
    pc[p] \in {"gen_encode", "ret_encode", "qry_generate"} /\ budget' < budget

\* C26: no external call is retried: a run calls the embedding provider at
\* most once, a query calls the embedding provider and the generative model
\* at most once each, and a call that fails makes the run or the query
\* raise.
C26_NoRetry ==
    /\ [](\A p \in Procs : /\ gen[p].encoded <= 1
                           /\ qry[p].encodes <= 1
                           /\ qry[p].generates <= 1)
    /\ [][\A p \in Procs :
             /\ ExternalCallFails(p)
                => /\ exc'[p] = EExc
                   /\ pc'[p] = (CASE pc[p] = "gen_encode" -> "gen_except"
                                  [] pc[p] = "ret_encode" -> "ret_except"
                                  [] pc[p] = "qry_generate" -> "qry_except")
             /\ (pc[p] \in {"gen_except", "ret_except", "qry_except"}
                 /\ exc[p] = EExc /\ pc'[p] # pc[p])
                => /\ exc'[p] = EExc
                   /\ Len(stack'[p]) < Len(stack[p])
                   /\ pc'[p] = After(Head(stack[p]), EExc)
                   /\ pc'[p] \in {"idle", "qry_except", "del_except",
                                  "gen_except"}]_vars

\* a query has raised after its one call of the generative model failed
C26_Witness ==
    /\ Idle(SvcProc) /\ qry[SvcProc].op = "query" /\ qry[SvcProc].kind = EExc
    /\ qry[SvcProc].encodes = 1 /\ qry[SvcProc].generates = 1
    /\ budget = 0

\* the message of the failure says that the embedding call or the call of
\* the generative model failed
Upstream(f) == "embedding" \in f.msg \/ "gemini" \in f.msg

\* C27: a query that raised Exception is answered with 503 when the
\* embedding call or the generative call failed, and with 500 when it
\* raised for any other reason.
C27_UpstreamIsServiceUnavailable ==
    \A p \in Procs :
       (Idle(p) /\ qry[p].op = "query" /\ qry[p].kind = EExc)
       => qry[p].http = IF Upstream(qry[p]) THEN 503 ELSE 500

\* the document that delete_document of thread p is to delete is not a
\* document of the chatbot
DocumentMissing(p) ==
    ~(docs[del[p].d].chatbot_id = del[p].t /\ docs[del[p].d].status # "none")

\* C21: every not-found condition reaches the caller as FileNotFoundError,
\* the kind that is neither the validation kind nor a generic failure:
\* similarity_search and delete_store without a store, delete_document for a
\* missing document, retrieve_context and query for a chatbot whose store is
\* missing.
C21_NotFoundIsItsOwnKind ==
    [][\A p \in Procs :
          /\ (pc[p] \in {"search_load", "delete_check"} /\ ~dir[arg[p].t]
              /\ (pc[p] = "search_load" => arg[p].k > 0) /\ pc'[p] # pc[p])
             => exc'[p] = FNF
          /\ (pc[p] = "del_select" /\ DocumentMissing(p) /\ dbBudget' = dbBudget
              /\ pc'[p] # pc[p])
             => exc'[p] = FNF
          /\ (pc[p] \in {"ret_except", "qry_except"} /\ exc[p] = FNF
              /\ pc'[p] # pc[p])
             => exc'[p] = FNF]_vars

\* delete_store, called from `site`, finds no store on this step of thread p
StoreMissingAt(p, sites) ==
    /\ pc[p] = "delete_check" /\ ~dir[arg[p].t]
    /\ Head(stack[p]) \in sites
    /\ pc'[p] # pc[p]

\* C28: delete_chatbot on a chatbot without a store, and delete_document on
\* a chatbot without a store, go on after the FileNotFoundError of
\* delete_store: delete_chatbot removes the chatbot row and the rows of its
\* documents and returns, delete_document has removed the document row and
\* goes on to its last steps.
C28_CascadeSurvivesMissingStore ==
    [][\A p \in Procs :
          /\ StoreMissingAt(p, {"dc_store"})
             => exc'[p] = FNF /\ pc'[p] = "dc_files"
          /\ (pc[p] = "dc_files" /\ pc'[p] # pc[p]) => pc'[p] = "dc_row"
          /\ (pc[p] = "dc_row" /\ dbBudget' = dbBudget /\ pc'[p] # pc[p])
             => /\ pc'[p] = "idle" /\ qry'[p].kind = OK
                /\ cbStatus'[qry[p].t] = "none"
                /\ \A d \in DocIds : docs'[d].chatbot_id # qry[p].t
          /\ StoreMissingAt(p, {"del_store0", "del_storeN"})
             => /\ exc'[p] = FNF
                /\ pc'[p] = IF Head(stack[p]) = "del_store0"
                            THEN "del_creating" ELSE "del_reset"
                /\ docs[del[p].d] = NoRow
          /\ (pc[p] = "del_creating" /\ dbBudget' = dbBudget /\ pc'[p] # pc[p])
             => /\ exc'[p] = OK /\ Len(stack'[p]) < Len(stack[p])
                /\ docs[del[p].d] = NoRow]_vars

\* delete_chatbot goes on after delete_store found no store for a chatbot
\* that has a document
C28_Witness ==
    /\ pc[SvcProc] = "dc_files" /\ exc[SvcProc] = FNF
    /\ qry[SvcProc].op = "delete_chatbot"
    /\ \E d \in DocIds : docs[d].chatbot_id = qry[SvcProc].t

\* ---------------------------------------------------------------------
\* delete_document for a document that is not the chatbot's
\* ---------------------------------------------------------------------

\* C39: delete_document for a document identifier that does not exist, or
\* that belongs to another chatbot, raises at its first step and leaves
\* every document row, every uploaded file, every store and every chatbot
\* status unchanged.
C39_DeleteMissingDocumentChangesNothing ==
    [][\A p \in Procs :
          (pc[p] = "del_select" /\ DocumentMissing(p) /\ pc'[p] # pc[p])
          => /\ exc'[p] \in {VErr, EExc}
             /\ pc'[p] \in {"idle", "del_except"}
             /\ (dbBudget' = dbBudget => pc'[p] = "idle" /\ exc'[p] = VErr)
             /\ UNCHANGED <<fsVars, dbVars>>]_vars

\* chatbot t1 was refused the deletion of a document of chatbot t2, which
\* is still there with its file
C39_Witness ==
    /\ Idle("p1") /\ del["p1"].t = "t1" /\ del["p1"].d = "d2"
    /\ exc["p1"] = VErr
    /\ docs["d2"].chatbot_id = "t2" /\ upfile["d2"].exists

\* ---------------------------------------------------------------------
\* delete_chatbot: what is left when it returns
\* ---------------------------------------------------------------------

\* C38: whenever delete_chatbot has returned without an exception, the
\* chatbot row and all its document rows are gone and the chatbot has no
\* store left (no directory, index or sidecar), also when delete_store
\* failed with an error other than not-found.
C38_DeletedChatbotLeavesNoStore ==
    \A p \in Procs :
      (Idle(p) /\ qry[p].op = "delete_chatbot" /\ qry[p].kind = OK)
      => /\ cbStatus[qry[p].t] = "none"
         /\ \A d \in DocIds : docs[d].chatbot_id # qry[p].t
         /\ NoStore(qry[p].t)

\* ---------------------------------------------------------------------
\* the prompt and the source list of an answered query
\* ---------------------------------------------------------------------
Answered(p) == Idle(p) /\ qry[p].op = "query" /\ qry[p].kind = OK

DocParts(prompt) == SelectSeq(prompt, LAMBDA x : x.tag = "Document")
TurnParts(prompt) == SelectSeq(prompt, LAMBDA x : x.tag \in {"User:", "Assistant:"})
PositionsOf(prompt, tags) == {i \in 1..Len(prompt) : prompt[i].tag \in tags}
Spoken(history) == SelectSeq(history, LAMBDA m : m.role \in {"user", "assistant"})

\* the prompt pr holds the system prompt of chatbot t first, then the blocks
\* of the context ctx in its order, then the turns as lines, then the
\* question q and the closing request
PromptInOrder(pr, t, q, ctx, turns) ==
    /\ Len(pr) >= 3
    /\ pr[1].tag = "system_prompt" /\ pr[1].name = t
    /\ pr[Len(pr) - 1].tag = "User question:" /\ pr[Len(pr) - 1].text = q
    /\ pr[Len(pr)].tag = "Please provide a helpful response"
    /\ Len(DocParts(pr)) = Len(ctx)
    /\ \A i \in 1..Len(ctx) :
          /\ DocParts(pr)[i].n = i
          /\ DocParts(pr)[i].name = ctx[i].filename
          /\ DocParts(pr)[i].text = ctx[i].text
    /\ \A i, j \in 1..Len(ctx) : i < j => ctx[i].score <= ctx[j].score
    /\ Len(TurnParts(pr)) = Len(turns)
    /\ \A i \in 1..Len(turns) :
          /\ TurnParts(pr)[i].text = turns[i].content
          /\ TurnParts(pr)[i].tag =
                (IF turns[i].role = "user" THEN "User:" ELSE "Assistant:")
    /\ \A i \in PositionsOf(pr, {"Document"}) : 1 < i /\ i < Len(pr) - 1
    /\ \A j \in PositionsOf(pr, {"User:", "Assistant:"}) : 1 < j /\ j < Len(pr) - 1
    /\ \A i \in PositionsOf(pr, {"Document"}),
          j \in PositionsOf(pr, {"User:", "Assistant:"}) : i < j

SourcesInOrder(out, ctx) ==
    /\ Len(out) = Len(ctx)
    /\ \A i \in 1..Len(ctx) :
          /\ out[i].filename = ctx[i].filename
          /\ out[i].chunk_index = ctx[i].chunk_index
          /\ out[i].score = ctx[i].score

\* C31 as stated: the prompt of an answered query holds, in this order, the
\* system prompt, one labelled block per retrieved chunk in ascending
\* distance, a "User:" or "Assistant:" line for every turn of the history
\* handed in, the question and the closing request; the source list has one
\* entry per retrieved chunk in the same order.
C31_PromptHoldsEveryTurn ==
    \A p \in Procs :
      Answered(p)
      => /\ PromptInOrder(qry[p].prompt, qry[p].t, qry[p].question, ret[p],
                          qry[p].history)
         /\ SourcesInOrder(qry[p].out, ret[p])

\* C31 (amended): the same, with a line for every turn of the history whose
\* role is "user" or "assistant"; a turn of any other role is left out of
\* the prompt.
C31_PromptHoldsUserAndAssistantTurns ==
    \A p \in Procs :
      Answered(p)
      => /\ PromptInOrder(qry[p].prompt, qry[p].t, qry[p].question, ret[p],
                          Spoken(qry[p].history))
         /\ SourcesInOrder(qry[p].out, ret[p])

\* a query with a conversation was answered from two chunks at different
\* distances
C31_Witness ==
    /\ Answered("p1")
    /\ Len(ret["p1"]) >= 2 /\ ret["p1"][1].score < ret["p1"][Len(ret["p1"])].score
    /\ Len(qry["p1"].history) = 3

\* ---------------------------------------------------------------------
\* what a query of another request can see
\* ---------------------------------------------------------------------

\* C34: in every state, the intermediate steps of delete_document and of
\* a run included, a chatbot whose status is ready has a store that exists
\* and holds at least one vector.
C34_ReadyHasStoreInEveryState ==
    \A t \in Tenants :
      cbStatus[t] = "ready" => dir[t] /\ idx[t] # NoIndex /\ ntotal(idx[t]) >= 1

\* ---------------------------------------------------------------------
\* completed documents and the store
\* ---------------------------------------------------------------------
\* every chunk of document d is a record of the sidecar of t with its vector
\* in the index
ChunksStored(t, d) ==
    /\ dir[t] /\ meta[t] # NoMeta /\ idx[t] # NoIndex
    /\ \A i \in 1..upfile[d].chunks :
          \E j \in 1..Len(meta[t].documents) :
             /\ meta[t].documents[j].document_id = d
             /\ meta[t].documents[j].text = ChunksOf(d, upfile[d].chunks)[i]
             /\ j <= ntotal(idx[t])

\* C33: whenever a chatbot is ready and no request is in flight, every
\* document of the chatbot whose status is completed has all its chunks in
\* the store of the chatbot, also after a run that failed at the embedding
\* or store step was followed by a successful run over new uploads.
C33_CompletedDocumentsAreStored ==
    \A t \in Tenants :
      (cbStatus[t] = "ready" /\ \A p \in Procs : Idle(p))
      => \A d \in DocIds :
            (docs[d].chatbot_id = t /\ docs[d].status = "completed")
            => ChunksStored(t, d)

\* ---------------------------------------------------------------------
\* search results after an add that failed between its two writes
\* ---------------------------------------------------------------------

\* C32: for any sequence of add_documents calls on one store, failed calls
\* included, every result of similarity_search carries the text that was
\* passed to add_documents together with the matched vector.  Every caller
\* passes each text with its own embedding, so the score of a result is the
\* distance from the query to the embedding of the text it carries.
C32_HitCarriesItsOwnText ==
    [][\A p \in Procs :
          (pc[p] = "search_read_meta" /\ pc'[p] # pc[p] /\ exc'[p] = OK)
          => \A i \in 1..Len(ret'[p]) :
                ret'[p][i].score = SqDist(arg[p].q, Embed(ret'[p][i].text))]_vars

\* ---------------------------------------------------------------------
\* no document is ingested twice
\* ---------------------------------------------------------------------

\* C36: when requests do not overlap, the sidecar of a chatbot never holds
\* two records with the same document identifier and chunk position.
C36_NoChunkStoredTwice ==
    \A t \in Tenants :
      meta[t] # NoMeta
      => \A i, j \in 1..Len(meta[t].documents) :
            (/\ meta[t].documents[i].document_id = meta[t].documents[j].document_id
             /\ meta[t].documents[i].chunk_index = meta[t].documents[j].chunk_index)
            => i = j

\* a second run has added a document uploaded later to the store that the
\* first run built
C36_Witness ==
    /\ Idle(SvcProc)
    /\ last = [op |-> "generate_embeddings", t |-> "t1", kind |-> OK]
    /\ Len(meta["t1"].documents) >= 2
    /\ meta["t1"].documents[1].document_id = "d2"
    /\ \E i \in 2..Len(meta["t1"].documents) :
          meta["t1"].documents[i].document_id = "d1"

\* ---------------------------------------------------------------------
\* the file limit: drafts, deploy_chatbot and uploads, by count
\* ---------------------------------------------------------------------
MaxRequestFiles == 11   \* largest number of files one request carries
MaxDraftFiles   == 12   \* cap on the files of the draft folder

\* everything but the counts stays as it is
DeployFrame ==
    UNCHANGED <<idx, meta, dir, cbStatus, docs, upfile, pc, stack, arg, lidx,
                lmeta, exc, ret, gen, del, qry, last, ov, added, sent, budget,
                dbBudget, cap>>

\* api_routes.py upload_draft_files, lines 731-810: a request with more than
\* 10 files is refused; otherwise every file is saved into the folder of the
\* draft, whatever the folder already holds
UploadDraftFiles(n) ==
    /\ dep.files + n <= MaxDraftFiles
    /\ dep' = IF n > 10 THEN dep ELSE [dep EXCEPT !.files = @ + n]
    /\ DeployFrame

\* api_routes.py deploy_chatbot, lines 1313-1392: a chatbot is created, one
\* document row is inserted for every file of the draft folder, and the
\* folder is removed
DeployChatbot ==
    /\ ~dep.deployed
    /\ dep' = [files |-> 0, rows |-> dep.files, deployed |-> TRUE]
    /\ DeployFrame

\* upload_documents, lines 156-182 and 184-259: more than 10 files, or more
\* than 10 together with the rows the chatbot has, is a ValueError; otherwise
\* one row is inserted per file
UploadDocuments(n) ==
    /\ dep.deployed
    /\ dep' = IF n > MaxFilesPerChatbot \/ dep.rows + n > MaxFilesPerChatbot
              THEN dep
              ELSE [dep EXCEPT !.rows = @ + n]
    /\ DeployFrame

\* delete_document, lines 533-540: the row of one document is deleted
DeleteDocumentRow ==
    /\ dep.deployed /\ dep.rows > 0
    /\ dep' = [dep EXCEPT !.rows = @ - 1]
    /\ DeployFrame

InitDeploy == InitCommon /\ budget = 0 /\ dbBudget = 0 /\ cap = MaxVecs

NextDeploy ==
    \/ \E n \in 1..MaxRequestFiles : UploadDraftFiles(n)
    \/ DeployChatbot
    \/ \E n \in 1..MaxRequestFiles : UploadDocuments(n)
    \/ DeleteDocumentRow

SpecDeploy == InitDeploy /\ [][NextDeploy]_vars

\* C37: after any sequence of uploads, of deploy_chatbot from a draft and of
\* delete_document, the chatbot never has more than 10 document rows.
C37_AtMostTenDocumentRows == dep.rows <= MaxFilesPerChatbot

\* ---------------------------------------------------------------------
\* a run comes to its end
\* ---------------------------------------------------------------------
\* the request threads keep running: a thread inside a run, or inside a
\* store call of the run, takes its next step
SpecLive ==
    Init /\ [][Next]_vars
    /\ WF_vars(GenStep(SvcProc) \/ CalledStoreStep(SvcProc))

\* thread p is inside a run that has marked its chatbot processing
RunMarked(p) ==
    /\ gen[p].t # ""
    /\ ~RunEnded(p)
    /\ pc[p] \notin {"gen_select", "gen_mark_processing"}
    /\ gen[p].documents # <<>>

\* the run of thread p ends with this step
RunEnds(p) == RunMarked(p) /\ RunEnded(p)'

\* C35: every run that has marked its chatbot processing comes to its end;
\* when it ends and every database write succeeded, the chatbot is ready if
\* the run returned and error if it raised, never processing, and every
\* document the run selected is completed or error, never uploaded or
\* processing.
C35_RunEndsWithFinalStatuses ==
    /\ \A p \in Procs : RunMarked(p) ~> RunEnded(p)
    /\ [][\A p \in Procs :
            (RunEnds(p) /\ dbBudget' = dbBudget)
            => /\ cbStatus'[gen[p].t] = (IF exc'[p] = OK THEN "ready" ELSE "error")
               /\ \A j \in 1..Len(gen[p].documents) :
                     docs'[gen[p].documents[j]].status \in {"completed", "error"}]_vars

\* a run over two documents raised at the embedding step: the chatbot is in
\* error, one document is completed and the other one, whose text could not
\* be extracted, is in error
C35_Witness ==
    /\ RunEnded(SvcProc) /\ pc[SvcProc] = "idle"
    /\ exc[SvcProc] = EExc
    /\ Len(gen[SvcProc].documents) = 2
    /\ gen[SvcProc].encoded = 1
    /\ cbStatus[gen[SvcProc].t] = "error"
    /\ \E d, e \in DocIds : docs[d].status = "completed" /\ docs[e].status = "error"
====
